---- MODULE Spec2Model ----
(***************************************************************************)
(* Model of the ETL execution engine: the paginator, the HTTP client with  *)
(* its retry policy, the per-record transformer and the bulk loader.       *)
(* Each component has its own specification over its own variables; the    *)
(* variables of the other components stay at their initial value.          *)
(***************************************************************************)
EXTENDS Integers, Sequences, FiniteSets, TLC

VARIABLES
    \* Paginator (src/src/extract/paginator.py)
    pg_max_pages,     \* Paginator.max_pages: None or an integer
    pg_page,          \* iterate: page
    pg_has_more,      \* iterate: has_more
    pg_pc,            \* "loop" | "done" | "raised"
    pg_log,           \* the responses the fetch function gave, in call order
    pg_fetched,       \* the page numbers passed to fetch_func, in call order
    pg_all_records,   \* fetch_all: all_records
    pg_pages_fetched, \* fetch_all: pages_fetched
    pg_exc,           \* the exception that left fetch_all, None when none
    \* FWCAPIClient._make_request under its retry decorator
    \* (src/src/extract/api_client.py)
    cl_pc,            \* "idle" | "attempt" | "sleep" | "returned" | "raised"
    cl_path,          \* the path requested
    cl_attempt,       \* tenacity's attempt_number
    cl_outcomes,      \* what each HTTP attempt met, in order
    cl_slept,         \* the waits between attempts, in seconds
    cl_result,        \* None, the JSON returned or the exception raised
    \* Concurrent callers of the client and the times their requests start
    rl_ceiling,       \* Settings.api_rate_limit
    rl_now,           \* the clock, in ticks
    rl_pc,            \* per caller: "idle" | "inflight"
    rl_starts,        \* the start time of every request issued, in order
    \* BaseTransformer.transform (src/src/transform/base_transformer.py)
    tr_records,       \* transform: records, the raw input list
    tr_pos,           \* the position of the loop, 1-based
    tr_transformed,   \* transform: transformed
    tr_errors,        \* transform: errors
    tr_metadata,      \* context.metadata["transform_errors"], None when unset
    tr_pc,            \* "loop" | "done"
    \* BulkLoader.load (src/src/load/bulk_loader.py)
    ld_key_columns,   \* BulkLoader.key_columns, as a set
    ld_upsert,        \* BulkLoader.upsert
    ld_data,          \* load: data, the canonical records
    ld_batch_size,    \* BulkLoader.batch_size
    ld_table0,        \* the destination table before the first load
    ld_table,         \* the destination table, committed rows in insert order
    ld_start,         \* the destination table when the current call of load began
    ld_run,           \* how many times load was called on ld_data
    ld_pc,            \* "idle" | "loading" | "returned" | "raised"
    ld_batch_num,     \* load: batch_num
    ld_attempts,      \* _upsert_batch: attempts
    ld_total_loaded,  \* load: total_loaded
    ld_errors,        \* context.errors of the current call
    ld_tries,         \* write attempts made per chunk in the current call
    ld_failed,        \* the chunks declared failed in the current call
    \* StateManager (src/src/orchestrator/state_manager.py)
    sm_jobs,          \* the rows of the jobs table, in insert order
    sm_now,           \* CURRENT_TIMESTAMP, in whole seconds
    sm_last,          \* the last call: its arguments, its outcome, the table before it
    sm_calls,         \* the number of calls made
    sm_steps,         \* the rows of the job_steps table, in id order
    sm_logs,          \* the rows of the job_logs table, in id order
    sm_save,          \* the last save_job_result: its arguments, the tables after its first call
    \* ETLOrchestrator.run_full_etl (src/src/orchestrator/pipeline.py)
    or_pc,            \* "idle" | "create_job" | "awards" | "except" | "raised"
    or_override,      \* the award_codes argument
    or_awards,        \* results["pipelines"]["awards"], None when unset
    or_children,      \* results["pipelines"][kind][award_code], None when unset
    or_runs,          \* the child pipelines run, in order, with how each ended
    or_status,        \* results["status"], "" when unset
    or_error,         \* results["error"], None when unset
    or_exc,           \* the exception the outer handler caught, None when none
    \* Pipeline.run (src/src/core/pipeline.py)
    pl_pc,            \* "idle" | "pre" | "transform" | "load" | "post" | "returned" | "raised"
    pl_extractor,     \* the extractor of the pipeline, by its kind
    pl_params,        \* params.get("award_code")
    pl_hooks,         \* the number of pre-hooks and of post-hooks
    pl_idx,           \* the position in the list of hooks, 1-based
    pl_calls,         \* the hooks and steps called, in order, with their input
    pl_steps,         \* context.step_results
    pl_errors,        \* context.errors
    pl_extraction,    \* the last extraction asked for and how it ended
    \* PipelineBuilder (src/src/core/pipeline.py)
    bd_builder,       \* the builder: its name, its steps (None when unset), its hooks
    bd_built,         \* the last call of build: the builder then, the error or the Pipeline
    \* chunk_list (src/src/utils/helpers.py)
    \* StateManager calls on separate connections (src/src/orchestrator/state_manager.py)
    cc_jobs,          \* the committed rows of the jobs table
    cc_work,          \* the table as the connection holding the write lock has changed it
    cc_lock,          \* the connection holding the write lock, "" when it is free
    cc_pc,            \* the position of each connection's call
    cc_existing,      \* create_job: existing, of each creator
    cc_raised,        \* the exception the call of each connection raised, None when none
    cc_job_ids,       \* cleanup_pending_jobs: job_ids
    cc_idx,           \* cleanup_pending_jobs: the position of the loop in job_ids
    cc_overwritten,   \* the statuses other than pending the cleanup has written over
    \* ParallelPipeline.run (src/src/core/pipeline.py)
    pp_pipelines,     \* self.pipelines, by name
    pp_params,        \* params_list
    pp_pc,            \* "idle" | "gather" | "returned"
    pp_tasks,         \* tasks: the pipeline and the params of each
    pp_done,          \* the tasks that have run to their end
    pp_results,       \* the list run returns: the context of each task, by pipeline and params
    ch_data,          \* chunk_list: data
    ch_size,          \* chunk_list: chunk_size
    ch_pc,            \* "idle" | "returned" | "raised"
    ch_chunks         \* the list of chunks returned

pgVars == <<pg_max_pages, pg_page, pg_has_more, pg_pc, pg_log, pg_fetched,
            pg_all_records, pg_pages_fetched, pg_exc>>

clVars == <<cl_pc, cl_path, cl_attempt, cl_outcomes, cl_slept, cl_result>>

rlVars == <<rl_ceiling, rl_now, rl_pc, rl_starts>>

trVars == <<tr_records, tr_pos, tr_transformed, tr_errors, tr_metadata, tr_pc>>

ldVars == <<ld_key_columns, ld_upsert, ld_data, ld_batch_size, ld_table0, ld_table, ld_start, ld_run, ld_pc,
            ld_batch_num, ld_attempts, ld_total_loaded, ld_errors, ld_tries,
            ld_failed>>

smVars == <<sm_jobs, sm_now, sm_last, sm_calls, sm_steps, sm_logs, sm_save>>

orVars == <<or_pc, or_override, or_awards, or_children, or_runs, or_status,
            or_error, or_exc>>

plVars == <<pl_pc, pl_extractor, pl_params, pl_hooks, pl_idx, pl_calls,
            pl_steps, pl_errors, pl_extraction>>

bdVars == <<bd_builder, bd_built>>

chVars == <<ch_data, ch_size, ch_pc, ch_chunks>>

ccVars == <<cc_jobs, cc_work, cc_lock, cc_pc, cc_existing, cc_raised,
            cc_job_ids, cc_idx, cc_overwritten>>

ppVars == <<pp_pipelines, pp_params, pp_pc, pp_tasks, pp_done, pp_results>>

vars == <<pgVars, clVars, rlVars, trVars, ldVars, smVars, orVars, plVars,
          bdVars, chVars, ccVars, ppVars>>

----------------------------------------------------------------------------
\* Python values

\* None is the empty sequence, a present value x is <<x>>.
None == <<>>

Some(x) == <<x>>

\* Python truthiness of an optional integer: None and 0 are falsy.
TruthyInt(o) == o # None /\ o[1] # 0

\* Python truthiness of an optional list: None and [] are falsy.
TruthyList(o) == o # None /\ o[1] # <<>>

----------------------------------------------------------------------------
\* Paginator

\* Largest page number the modelled source is asked for.
MaxPage == 3

\* The shapes of the "_meta" entry of a response: missing, an empty dict, or
\* a dict whose has_more_results is true or false.
MetaShapes == {"absent", "empty", "more", "nomore"}

\* The exceptions the fetch function can raise.
FetchErrors == {"FWCAPIError", "TimeoutError"}

\* The responses the fetch function can give for page p.  "results" and
\* "data" are optional lists of records; a record carries its page and key.
PageResponses(p) ==
    [raises : {FALSE}, error : {""},
     results : {None, Some(<<>>), Some(<<[page |-> p, key |-> "results"]>>)},
     data : {None, Some(<<[page |-> p, key |-> "data"]>>)},
     meta : MetaShapes]
    \cup
    {[raises |-> TRUE, error |-> exc, results |-> None, data |-> None,
      meta |-> "absent"] : exc \in FetchErrors}

\* The mutant of ResponseRecords: "data" is read before "results".
ResponseRecordsDataFirst(r) ==
    IF TruthyList(r.data) THEN r.data[1]
    ELSE IF r.results # None THEN r.results[1] ELSE <<>>

\* response.get("results") or response.get("data", [])
ResponseRecords(r) ==
    IF TruthyList(r.results) THEN r.results[1]
    ELSE IF r.data # None THEN r.data[1] ELSE <<>>

ResponseHasMoreByDefault(r) ==
    IF r.meta \notin {"absent", "empty"} THEN r.meta = "more" ELSE TRUE

\* PaginationMeta.has_more of response.get("_meta", {}); a missing or empty
\* dict is falsy and takes the fallback branch: single page.
ResponseHasMore(r) ==
    IF r.meta \notin {"absent", "empty"} THEN r.meta = "more" ELSE FALSE

RaisedResultKeepsPages(all_records) == all_records

\* fetch_all has no handler: when iterate raises, the exception leaves
\* fetch_all and the list built so far is dropped with its frame.
RaisedResult(all_records) == <<>>

\* iterate: "if self.max_pages and page > self.max_pages: break"
MaxPagesReached(max_pages, page) ==
    TruthyInt(max_pages) /\ page > max_pages[1]

\* The paginator's steps leave the other components alone.
PgFrame == UNCHANGED <<clVars, rlVars, trVars, ldVars, smVars, orVars, plVars, bdVars, chVars, ccVars, ppVars>>

PgInit ==
    /\ pg_max_pages \in {None} \cup {Some(m) : m \in 0..MaxPage}
    /\ pg_page = 1
    /\ pg_has_more = TRUE
    /\ pg_pc = "loop"
    /\ pg_log = <<>>
    /\ pg_fetched = <<>>
    /\ pg_all_records = <<>>
    /\ pg_pages_fetched = 0
    /\ pg_exc = None

\* The loop ends at the page cap.
PgMaxPagesReached ==
    /\ PgFrame
    /\ pg_pc = "loop"
    /\ pg_has_more
    /\ MaxPagesReached(pg_max_pages, pg_page)
    /\ pg_pc' = "done"
    /\ UNCHANGED <<pg_max_pages, pg_page, pg_has_more, pg_log, pg_fetched,
                   pg_all_records, pg_pages_fetched, pg_exc>>

\* One pass of the loop body: fetch the page, read records and metadata,
\* yield the records to fetch_all, advance the page counter.
PgFetchPage ==
    /\ PgFrame
    /\ pg_pc = "loop"
    /\ pg_has_more
    /\ ~MaxPagesReached(pg_max_pages, pg_page)
    /\ pg_page <= MaxPage
    /\ \E r \in PageResponses(pg_page) :
        /\ ~r.raises
        /\ pg_log' = Append(pg_log, r)
        /\ pg_fetched' = Append(pg_fetched, pg_page)
        /\ pg_has_more' = ResponseHasMore(r)
        /\ IF ResponseRecords(r) # <<>>
           THEN /\ pg_all_records' = pg_all_records \o ResponseRecords(r)
                /\ pg_pages_fetched' = pg_pages_fetched + 1
           ELSE UNCHANGED <<pg_all_records, pg_pages_fetched>>
        /\ pg_page' = pg_page + 1
    /\ UNCHANGED <<pg_max_pages, pg_pc, pg_exc>>

\* The fetch function raises: the exception leaves iterate and fetch_all,
\* which returns nothing.
PgFetchRaises ==
    /\ PgFrame
    /\ pg_pc = "loop"
    /\ pg_has_more
    /\ ~MaxPagesReached(pg_max_pages, pg_page)
    /\ pg_page <= MaxPage
    /\ \E r \in PageResponses(pg_page) :
        /\ r.raises
        /\ pg_log' = Append(pg_log, r)
        /\ pg_fetched' = Append(pg_fetched, pg_page)
        /\ pg_exc' = Some(r.error)
    /\ pg_pc' = "raised"
    /\ pg_all_records' = RaisedResult(pg_all_records)
    /\ UNCHANGED <<pg_max_pages, pg_page, pg_has_more, pg_pages_fetched>>

\* "while has_more" is false: iterate ends and fetch_all returns all_records.
PgExhausted ==
    /\ PgFrame
    /\ pg_pc = "loop"
    /\ ~pg_has_more
    /\ pg_pc' = "done"
    /\ UNCHANGED <<pg_max_pages, pg_page, pg_has_more, pg_log, pg_fetched,
                   pg_all_records, pg_pages_fetched, pg_exc>>

PgNext ==
    \/ PgMaxPagesReached
    \/ PgFetchPage
    \/ PgFetchRaises
    \/ PgExhausted

----------------------------------------------------------------------------
\* FWCAPIClient

\* stop_after_attempt(3)
MaxAttempts == 3

\* wait_exponential(multiplier=1, min=1, max=10)
WaitMultiplier == 1

WaitMin == 1

WaitMax == 10

\* The API paths the client's get_* methods request.
Paths == {"/awards", "/awards/{code}/classifications", "/awards/{code}/pay-rates"}

\* What client.request can meet: an httpx transport exception or a response
\* with a status code.
\* An outcome is [exc, status]: exc names the transport exception, or is
\* "none" when a response with that status code arrived.
TransientErrors == {"TimeoutException", "NetworkError"}

StatusCodes == {200, 401, 403, 404, 429, 500, 503}

AttemptOutcomes ==
    {[exc |-> e, status |-> 0] : e \in TransientErrors}
    \cup {[exc |-> "none", status |-> st] : st \in StatusCodes}

\* The body of _make_request for one attempt: the exception it raises, or
\* "ok" when it returns response.json().
AttemptRaises(outcome) ==
    IF outcome.exc # "none" THEN outcome.exc
    ELSE IF outcome.status = 401 THEN "FWCAPIAuthError"
    ELSE IF outcome.status = 429 THEN "FWCAPIRateLimitError"
    ELSE IF outcome.status >= 400 THEN "FWCAPIError"
    ELSE "ok"

\* The mutant of RetryIf: API errors are retried as well.
RetryIfAnyError(exc) ==
    exc \in {"TimeoutException", "NetworkError", "FWCAPIAuthError",
             "FWCAPIRateLimitError", "FWCAPIError"}

\* retry_if_exception_type((httpx.TimeoutException, httpx.NetworkError))
RetryIf(exc) == exc \in {"TimeoutException", "NetworkError"}

\* The mutant of StopAfterAttempt: one attempt fewer.
StopAfterAttemptEarly(attempt_number) == attempt_number >= MaxAttempts - 1

\* stop_after_attempt(3)
StopAfterAttempt(attempt_number) == attempt_number >= MaxAttempts

RECURSIVE Pow2(_)
Pow2(n) == IF n = 0 THEN 1 ELSE 2 * Pow2(n - 1)

Min(a, b) == IF a <= b THEN a ELSE b

Max(a, b) == IF a >= b THEN a ELSE b

\* wait_exponential: multiplier * 2^(attempt_number - 1), kept within
\* [min, max].
WaitExponential(attempt_number) ==
    Max(WaitMin, Min(WaitMultiplier * Pow2(attempt_number - 1), WaitMax))

ClFrame == UNCHANGED <<pgVars, rlVars, trVars, ldVars, smVars, orVars, plVars, bdVars, chVars, ccVars, ppVars>>

ClInit ==
    /\ cl_pc = "idle"
    /\ cl_path = None
    /\ cl_attempt = 0
    /\ cl_outcomes = <<>>
    /\ cl_slept = <<>>
    /\ cl_result = None

\* A caller invokes _make_request("GET", path): the first attempt begins.
ClCall ==
    /\ ClFrame
    /\ cl_pc = "idle"
    /\ \E path \in Paths : cl_path' = Some(path)
    /\ cl_pc' = "attempt"
    /\ cl_attempt' = 1
    /\ UNCHANGED <<cl_outcomes, cl_slept, cl_result>>

\* The attempt gets a response below 400: its JSON body is returned.
ClAttemptReturns ==
    /\ ClFrame
    /\ cl_pc = "attempt"
    /\ \E outcome \in AttemptOutcomes :
        /\ AttemptRaises(outcome) = "ok"
        /\ cl_outcomes' = Append(cl_outcomes, outcome)
        /\ cl_result' = Some([kind |-> "json", attempt |-> cl_attempt])
    /\ cl_pc' = "returned"
    /\ UNCHANGED <<cl_path, cl_attempt, cl_slept>>

\* The attempt raises and the retry policy gives up, because the exception
\* is not of a retried type or because the attempts are used up: the
\* exception of this attempt reaches the caller (reraise=True).
ClAttemptRaises ==
    /\ ClFrame
    /\ cl_pc = "attempt"
    /\ \E outcome \in AttemptOutcomes :
        /\ AttemptRaises(outcome) # "ok"
        /\ \/ ~RetryIf(AttemptRaises(outcome))
           \/ StopAfterAttempt(cl_attempt)
        /\ cl_outcomes' = Append(cl_outcomes, outcome)
        /\ cl_result' = Some([kind |-> AttemptRaises(outcome),
                              attempt |-> cl_attempt])
    /\ cl_pc' = "raised"
    /\ UNCHANGED <<cl_path, cl_attempt, cl_slept>>

\* The attempt raises a retried exception with attempts left: the policy
\* sleeps for the exponential wait.
ClAttemptRetries ==
    /\ ClFrame
    /\ cl_pc = "attempt"
    /\ \E outcome \in AttemptOutcomes :
        /\ AttemptRaises(outcome) # "ok"
        /\ RetryIf(AttemptRaises(outcome))
        /\ ~StopAfterAttempt(cl_attempt)
        /\ cl_outcomes' = Append(cl_outcomes, outcome)
    /\ cl_slept' = Append(cl_slept, WaitExponential(cl_attempt))
    /\ cl_pc' = "sleep"
    /\ UNCHANGED <<cl_path, cl_attempt, cl_result>>

\* The wait is over: the next attempt begins.
ClWake ==
    /\ ClFrame
    /\ cl_pc = "sleep"
    /\ cl_pc' = "attempt"
    /\ cl_attempt' = cl_attempt + 1
    /\ UNCHANGED <<cl_path, cl_outcomes, cl_slept, cl_result>>

ClNext ==
    \/ ClCall
    \/ ClAttemptReturns
    \/ ClAttemptRaises
    \/ ClAttemptRetries
    \/ ClWake

----------------------------------------------------------------------------
\* Concurrent callers of the client

\* The callers that share one client.
NumCallers == 3

\* The largest api_rate_limit modelled.
MaxRateLimit == 2

\* Clock ticks per second and the last tick modelled.
TicksPerSecond == 2

MaxTime == 3

\* The number of requests issued in a run.
MaxRequests == 4

Callers == 1..NumCallers

RlFrame == UNCHANGED <<pgVars, clVars, trVars, ldVars, smVars, orVars, plVars, bdVars, chVars, ccVars, ppVars>>

RlInit ==
    /\ rl_ceiling \in 1..MaxRateLimit
    /\ rl_now = 0
    /\ rl_pc = [c \in Callers |-> "idle"]
    /\ rl_starts = <<>>

\* A caller enters _make_request and reaches client.request: nothing in the
\* client makes it wait, the request starts now.
RlRequestStarts(c) ==
    /\ RlFrame
    /\ rl_pc[c] = "idle"
    /\ Len(rl_starts) < MaxRequests
    /\ rl_pc' = [rl_pc EXCEPT ![c] = "inflight"]
    /\ rl_starts' = Append(rl_starts, rl_now)
    /\ UNCHANGED <<rl_ceiling, rl_now>>

\* The awaited request completes, with a response or an exception.
RlRequestEnds(c) ==
    /\ RlFrame
    /\ rl_pc[c] = "inflight"
    /\ rl_pc' = [rl_pc EXCEPT ![c] = "idle"]
    /\ UNCHANGED <<rl_ceiling, rl_now, rl_starts>>

\* Time passes.
RlTick ==
    /\ RlFrame
    /\ rl_now < MaxTime
    /\ rl_now' = rl_now + 1
    /\ UNCHANGED <<rl_ceiling, rl_pc, rl_starts>>

RlNext ==
    \/ \E c \in Callers : RlRequestStarts(c)
    \/ \E c \in Callers : RlRequestEnds(c)
    \/ RlTick

----------------------------------------------------------------------------
\* Transformer

\* The longest raw input list.
MaxRaw == 3

\* A raw record is what the source sent for one list element: a JSON object
\* with optional fields, or a value that is no object.  Field values are
\* JSON tokens.
RawRecords ==
    [is_dict : {TRUE},
     award_fixed_id : {None, Some("7"), Some("x")},
     published_year : {Some("2024"), Some("Infinity")},
     name : {Some(" a "), Some("  ")}]
    \cup
    {[is_dict |-> FALSE, award_fixed_id |-> None, published_year |-> None,
      name |-> None]}

\* int(value) for the tokens that are numbers.
IntOf(token) == IF token = "7" THEN 7 ELSE 2024

\* convert_int: None gives None, a ValueError or TypeError gives None.
ConvertInt(v) ==
    IF v = None THEN None
    ELSE IF v[1] \in {"7", "2024"} THEN Some(IntOf(v[1]))
    ELSE None

\* int(float("inf")) raises OverflowError, which convert_int does not catch.
ConvertIntRaises(v) == v = Some("Infinity")

\* clean_string: str(value).strip(), an empty result gives None.
CleanString(v) ==
    IF v = None THEN None
    ELSE IF v[1] = " a " THEN Some("a")
    ELSE None

\* AwardsTransformer._transform_record raises: record.get on a value that is
\* no dict (AttributeError), or convert_int on an infinite number.
TransformRecordRaises(raw) ==
    \/ ~raw.is_dict
    \/ ConvertIntRaises(raw.award_fixed_id)
    \/ ConvertIntRaises(raw.published_year)

\* AwardsTransformer._transform_record: the canonical record.
TransformRecord(raw) ==
    [award_fixed_id |-> ConvertInt(raw.award_fixed_id),
     published_year |-> ConvertInt(raw.published_year),
     name |-> CleanString(raw.name)]

\* The mutant of TruthyDict: a record without its key field counts as empty.
TruthyDictKeyed(d) == DOMAIN d # {} /\ d.award_fixed_id # None

\* "if result:" a dict is truthy when it has at least one key.
TruthyDict(d) == DOMAIN d # {}

\* The mutant of ErrorIndex: positions counted from 1.
ErrorIndexOneBased(pos) == pos

\* enumerate(records) counts from 0.
ErrorIndex(pos) == pos - 1

RECURSIVE SeqsUpTo(_, _)
SeqsUpTo(S, n) ==
    IF n = 0 THEN {<<>>}
    ELSE LET shorter == SeqsUpTo(S, n - 1) IN
         shorter \cup {Append(q, x) : q \in {t \in shorter : Len(t) = n - 1}, x \in S}

TrFrame == UNCHANGED <<pgVars, clVars, rlVars, ldVars, smVars, orVars, plVars, bdVars, chVars, ccVars, ppVars>>

TrInit ==
    /\ tr_records \in SeqsUpTo(RawRecords, MaxRaw)
    /\ tr_pos = 1
    /\ tr_transformed = <<>>
    /\ tr_errors = <<>>
    /\ tr_metadata = None
    /\ tr_pc = "loop"

\* One pass of the loop: _transform_record returns and a truthy result is
\* appended.
TrRecordTransformed ==
    /\ TrFrame
    /\ tr_pc = "loop"
    /\ tr_pos <= Len(tr_records)
    /\ ~TransformRecordRaises(tr_records[tr_pos])
    /\ tr_transformed' =
           IF TruthyDict(TransformRecord(tr_records[tr_pos]))
           THEN Append(tr_transformed, TransformRecord(tr_records[tr_pos]))
           ELSE tr_transformed
    /\ tr_pos' = tr_pos + 1
    /\ UNCHANGED <<tr_records, tr_errors, tr_metadata, tr_pc>>

\* One pass of the loop: _transform_record raises, the error is recorded
\* with the record's index and the loop goes on.
TrRecordFails ==
    /\ TrFrame
    /\ tr_pc = "loop"
    /\ tr_pos <= Len(tr_records)
    /\ TransformRecordRaises(tr_records[tr_pos])
    /\ tr_errors' = Append(tr_errors,
                           [index |-> ErrorIndex(tr_pos),
                            error |-> IF tr_records[tr_pos].is_dict
                                      THEN "OverflowError"
                                      ELSE "AttributeError"])
    /\ tr_pos' = tr_pos + 1
    /\ UNCHANGED <<tr_records, tr_transformed, tr_metadata, tr_pc>>

\* After the loop: the errors, if any, go to the context and transformed is
\* returned.
TrReturn ==
    /\ TrFrame
    /\ tr_pc = "loop"
    /\ tr_pos > Len(tr_records)
    /\ tr_metadata' = IF tr_errors # <<>> THEN Some(tr_errors) ELSE tr_metadata
    /\ tr_pc' = "done"
    /\ UNCHANGED <<tr_records, tr_pos, tr_transformed, tr_errors>>

TrNext ==
    \/ TrRecordTransformed
    \/ TrRecordFails
    \/ TrReturn

----------------------------------------------------------------------------
\* BulkLoader

\* The longest list of canonical records given to load.
MaxLoadRecords == 2

\* The largest batch_size.
MaxBatchSize == 2

\* "while attempts < 3"
MaxWriteAttempts == 3

\* key_columns of the awards loader.
AwardsKeyColumns == {"award_fixed_id", "published_year"}

\* columns = list(batch[0].keys())
Columns == {"award_fixed_id", "published_year", "name"}

\* self.key_columns
KeyColumns == ld_key_columns

\* update_columns = [c for c in columns if c not in self.key_columns]
UpdateColumns == Columns \ KeyColumns

\* The MERGE statement _upsert_batch builds has a condition after ON and an
\* assignment after UPDATE SET: with no key column (or no other column) the
\* text is not a statement and session.execute raises.
MergeIsValid == KeyColumns # {} /\ UpdateColumns # {}

\* The canonical records given to the loader: two awards, a record whose
\* published_year the transformer left null, two names.
LoadRecords ==
    {[award_fixed_id |-> Some(k[1]), published_year |-> k[2], name |-> Some(n)] :
        k \in {<<7, Some(2024)>>, <<8, Some(2024)>>, <<7, None>>},
        n \in {"a", "b"}}

\* The destination table before the first load.
InitialTables ==
    {<<>>,
     <<[award_fixed_id |-> Some(7), published_year |-> Some(2024),
        name |-> Some("b")]>>}

\* Exceptions a write attempt can meet: lost connectivity, or a statement
\* the database rejects.
WriteErrors == {"OperationalError", "IntegrityError"}

\* The exception of a statement the database cannot parse.
SyntaxErrors == {"ProgrammingError"}

\* Calls of load on the same data: the load and its repetition.
LoadRuns == {1, 2}

ChunkListFullOnly(data, chunk_size) ==
    [i \in 1..(Len(data) \div chunk_size) |->
        SubSeq(data, (i - 1) * chunk_size + 1, i * chunk_size)]

\* chunk_list(data, chunk_size):
\* [data[i : i + chunk_size] for i in range(0, len(data), chunk_size)]
ChunkList(data, chunk_size) ==
    [i \in 1..((Len(data) + chunk_size - 1) \div chunk_size) |->
        SubSeq(data, (i - 1) * chunk_size + 1,
               Min(i * chunk_size, Len(data)))]

\* MERGE's "ON target.k = source.k AND ...": an SQL comparison with NULL on
\* either side is not true.
KeyMatch(target, source) ==
    \A col \in KeyColumns :
        /\ target[col] # None
        /\ source[col] # None
        /\ target[col] = source[col]

\* One MERGE statement: matched rows get the source's non-key columns, and
\* without a match the source is inserted.
MergeRow(table, source) ==
    IF \E i \in 1..Len(table) : KeyMatch(table[i], source)
    THEN [i \in 1..Len(table) |->
            IF KeyMatch(table[i], source)
            THEN [col \in DOMAIN table[i] |->
                    IF col \in UpdateColumns THEN source[col] ELSE table[i][col]]
            ELSE table[i]]
    ELSE Append(table, source)

\* session.execute for the first n records of the batch, in order.
RECURSIVE MergeBatch(_, _, _)
MergeBatch(table, batch, n) ==
    IF n = 0 THEN table
    ELSE MergeRow(MergeBatch(table, batch, n - 1), batch[n])

\* _insert_batch: session.execute of the INSERT for the first n records.
InsertBatch(table, batch, n) == table \o SubSeq(batch, 1, n)

\* load: "if self.upsert: _upsert_batch ... else: _insert_batch"
WriteBatch(table, batch, n) ==
    IF ld_upsert THEN MergeBatch(table, batch, n) ELSE InsertBatch(table, batch, n)

\* An attempt can commit unless its statement is not valid SQL.
CanCommit == ld_upsert => MergeIsValid

\* How many statements of the batch can be executed before the exception
\* of a failed attempt, and the exceptions it can be.
StatementsBeforeError(batch) ==
    IF CanCommit THEN 0..Len(batch) ELSE {0}

AttemptErrors == IF CanCommit THEN WriteErrors ELSE SyntaxErrors

AttemptsLeftOneMore(attempts) == attempts < MaxWriteAttempts + 1

\* _upsert_batch and _insert_batch: "while attempts < 3"
AttemptsLeft(attempts) == attempts < MaxWriteAttempts

\* The mutant of Rollback: the statements executed before the exception stay.
RollbackKeepsWork(committed, work) == work

\* session.rollback(): the uncommitted work of the session is discarded.
Rollback(committed, work) == committed

\* The mutant of LoadCatches: only connectivity errors are caught.
LoadCatchesOperational(exc) == exc = "OperationalError"

\* load: "except Exception as e" catches every error of a write attempt.
LoadCatches(exc) ==
    exc \in {"OperationalError", "IntegrityError", "ProgrammingError"}

LdFrame == UNCHANGED <<pgVars, clVars, rlVars, trVars, smVars, orVars, plVars, bdVars, chVars, ccVars, ppVars>>

LdInit ==
    /\ ld_key_columns = AwardsKeyColumns
    /\ ld_upsert = TRUE
    /\ ld_data \in SeqsUpTo(LoadRecords, MaxLoadRecords)
    /\ ld_batch_size \in 1..MaxBatchSize
    /\ ld_table0 \in InitialTables
    /\ ld_table = ld_table0
    /\ ld_start = ld_table0
    /\ ld_run = 0
    /\ ld_pc = "idle"
    /\ ld_batch_num = 0
    /\ ld_attempts = 0
    /\ ld_total_loaded = 0
    /\ ld_errors = <<>>
    /\ ld_tries = <<>>
    /\ ld_failed = {}

LdBatches == ChunkList(ld_data, ld_batch_size)

\* load is called with a fresh context: an empty list returns 0 at once,
\* otherwise the loop over the chunks begins.
LdCall ==
    /\ LdFrame
    /\ ld_pc \in {"idle", "returned"}
    /\ ld_run + 1 \in LoadRuns
    /\ ld_run' = ld_run + 1
    /\ ld_start' = ld_table
    /\ ld_total_loaded' = 0
    /\ ld_errors' = <<>>
    /\ ld_failed' = {}
    /\ ld_attempts' = 0
    /\ IF ld_data = <<>>
       THEN /\ ld_pc' = "returned"
            /\ ld_batch_num' = 0
            /\ ld_tries' = <<>>
       ELSE /\ ld_pc' = "loading"
            /\ ld_batch_num' = 1
            /\ ld_tries' = [i \in 1..Len(LdBatches) |-> 0]
    /\ UNCHANGED <<ld_key_columns, ld_upsert, ld_data, ld_batch_size, ld_table0, ld_table>>

\* A write attempt of _upsert_batch or _insert_batch that executes the
\* statement for every record and commits.
LdAttemptCommits ==
    /\ LdFrame
    /\ ld_pc = "loading"
    /\ ld_batch_num <= Len(LdBatches)
    /\ CanCommit
    /\ LET batch == LdBatches[ld_batch_num] IN
        /\ ld_table' = WriteBatch(ld_table, batch, Len(batch))
        /\ ld_total_loaded' = ld_total_loaded + Len(batch)
    /\ ld_tries' = [ld_tries EXCEPT ![ld_batch_num] = @ + 1]
    /\ ld_batch_num' = ld_batch_num + 1
    /\ ld_attempts' = 0
    /\ UNCHANGED <<ld_key_columns, ld_upsert, ld_data, ld_batch_size, ld_table0, ld_start, ld_run, ld_pc, ld_errors,
                   ld_failed>>

\* A write attempt that meets an exception after n statements (or at the
\* commit): the session is rolled back and, with attempts left, the chunk is
\* tried again after the backoff sleep.
LdAttemptFailsRetry ==
    /\ LdFrame
    /\ ld_pc = "loading"
    /\ ld_batch_num <= Len(LdBatches)
    /\ AttemptsLeft(ld_attempts + 1)
    /\ \E n \in StatementsBeforeError(LdBatches[ld_batch_num]) :
        ld_table' = Rollback(ld_table,
                             WriteBatch(ld_table, LdBatches[ld_batch_num], n))
    /\ ld_attempts' = ld_attempts + 1
    /\ ld_tries' = [ld_tries EXCEPT ![ld_batch_num] = @ + 1]
    /\ UNCHANGED <<ld_key_columns, ld_upsert, ld_data, ld_batch_size, ld_table0, ld_start, ld_run, ld_pc,
                   ld_batch_num, ld_total_loaded, ld_errors, ld_failed>>

\* The last write attempt fails too: _upsert_batch raises last_exc, load
\* catches it, adds the error to the context and goes on to the next chunk.
LdChunkFails ==
    /\ LdFrame
    /\ ld_pc = "loading"
    /\ ld_batch_num <= Len(LdBatches)
    /\ ~AttemptsLeft(ld_attempts + 1)
    /\ \E n \in StatementsBeforeError(LdBatches[ld_batch_num]) :
        ld_table' = Rollback(ld_table,
                             WriteBatch(ld_table, LdBatches[ld_batch_num], n))
    /\ ld_tries' = [ld_tries EXCEPT ![ld_batch_num] = @ + 1]
    /\ ld_failed' = ld_failed \cup {ld_batch_num}
    /\ ld_attempts' = 0
    /\ \E exc \in AttemptErrors :
        IF LoadCatches(exc)
        THEN /\ ld_errors' = Append(ld_errors, [batch |-> ld_batch_num, error |-> exc])
             /\ ld_batch_num' = ld_batch_num + 1
             /\ ld_pc' = ld_pc
        ELSE /\ ld_pc' = "raised"
             /\ UNCHANGED <<ld_errors, ld_batch_num>>
    /\ UNCHANGED <<ld_key_columns, ld_upsert, ld_data, ld_batch_size, ld_table0, ld_start, ld_run, ld_total_loaded>>

\* The loop over the chunks is over: load returns total_loaded.
LdReturn ==
    /\ LdFrame
    /\ ld_pc = "loading"
    /\ ld_batch_num > Len(LdBatches)
    /\ ld_pc' = "returned"
    /\ UNCHANGED <<ld_key_columns, ld_upsert, ld_data, ld_batch_size, ld_table0, ld_start, ld_table, ld_run,
                   ld_batch_num, ld_attempts, ld_total_loaded, ld_errors,
                   ld_tries, ld_failed>>

LdNext ==
    \/ LdCall
    \/ LdAttemptCommits
    \/ LdAttemptFailsRetry
    \/ LdChunkFails
    \/ LdReturn

----------------------------------------------------------------------------
\* StateManager: the jobs table (src/src/orchestrator/state_manager.py)
\*
\* A row of jobs keeps the columns the calls below read or write: job_id,
\* status, total_records, error_message, completed_at and created_at.  The
\* clock is CURRENT_TIMESTAMP, which SQLite keeps in whole seconds.

MaxClock == 2

MaxCalls == 1

JobIds == {"j1", "j2"}

JobStatuses == {"pending", "running", "success", "failed"}

\* Optional[str] arguments: None, the empty string or a message.
ErrorMessages == {None, Some(""), Some("boom")}

TotalRecords == {3}

\* older_than_seconds: None or a number of seconds.
OlderThan == {None} \cup {Some(a) : a \in 0..MaxClock}

CleanupMessage == "Marked failed by cleanup"

\* Python truthiness of an Optional[str].
TruthyStr(o) == o # None /\ o[1] # ""

\* The indexes of the rows WHERE job_id = ?.
JobRows(jobs, job_id) == {i \in 1..Len(jobs) : jobs[i].job_id = job_id}

\* get_job: the first row with the job_id, None when there is none.
GetJob(jobs, job_id) ==
    IF JobRows(jobs, job_id) = {}
    THEN None
    ELSE Some(jobs[CHOOSE i \in JobRows(jobs, job_id) :
                       \A k \in JobRows(jobs, job_id) : i <= k])

\* An UPDATE jobs SET ... WHERE job_id = ?: every row with the job_id takes
\* its value in `set`, the table with the SET clause applied to every row.
UpdateWhere(jobs, job_id, set) ==
    [i \in 1..Len(jobs) |->
        IF jobs[i].job_id = job_id THEN set[i] ELSE jobs[i]]

ExistingNever(existing) == FALSE

\* create_job: `if existing:` on the row fetched.
Existing(existing) == existing # None

\* The UNIQUE constraint on jobs.job_id: an INSERT of a job_id the table
\* holds raises sqlite3.IntegrityError.
UniqueViolation(jobs, job_id) == JobRows(jobs, job_id) # {}

CreateJobRaises(jobs, job_id) ==
    /\ ~Existing(GetJob(jobs, job_id))
    /\ UniqueViolation(jobs, job_id)

\* create_job: resets the row when the job exists, inserts it otherwise.
CreateJob(jobs, job_id, now) ==
    IF Existing(GetJob(jobs, job_id))
    THEN UpdateWhere(jobs, job_id,
            [i \in 1..Len(jobs) |->
                [jobs[i] EXCEPT !.status = "pending",
                                !.error_message = None]])
    ELSE Append(jobs, [job_id |-> job_id,
                       status |-> "pending",
                       total_records |-> 0,
                       error_message |-> None,
                       completed_at |-> None,
                       created_at |-> now])

\* update_job_status: error_message is written only when it is truthy.
UpdateJobStatus(jobs, job_id, status, error_message) ==
    LET WithError == [i \in 1..Len(jobs) |->
                         [jobs[i] EXCEPT !.status = status,
                                         !.error_message = error_message]]
        StatusOnly == [i \in 1..Len(jobs) |->
                          [jobs[i] EXCEPT !.status = status]]
    IN IF TruthyStr(error_message)
       THEN UpdateWhere(jobs, job_id, WithError)
       ELSE UpdateWhere(jobs, job_id, StatusOnly)

CompletionKeepsCompletedAt(row, now) == row.completed_at

\* update_job_completion: completed_at = CURRENT_TIMESTAMP.
CompletionCompletedAt(row, now) == Some(now)

\* update_job_completion: status and error_message are stored as passed.
UpdateJobCompletion(jobs, job_id, status, total_records, error_message, now) ==
    UpdateWhere(jobs, job_id,
        [i \in 1..Len(jobs) |->
            [jobs[i] EXCEPT !.status = status,
                            !.total_records = total_records,
                            !.error_message = error_message,
                            !.completed_at =
                                CompletionCompletedAt(jobs[i], now)]])

CleanupSelectsAnyStatus(row, older, now) ==
    older = None \/ row.created_at <= now - older[1]

\* cleanup_pending_jobs: the WHERE clause of its SELECT.
CleanupSelects(row, older, now) ==
    /\ row.status = "pending"
    /\ older = None \/ row.created_at <= now - older[1]

\* cleanup_pending_jobs: job_ids, the job_id of every row selected.
CleanupJobIds(jobs, older, now) ==
    SelectSeq(jobs, LAMBDA row : CleanupSelects(row, older, now))

\* cleanup_pending_jobs: one UPDATE per job_id selected.
CleanupPendingJobs(jobs, older, now) ==
    LET selected == {row.job_id : row \in
                        {CleanupJobIds(jobs, older, now)[i] :
                            i \in 1..Len(CleanupJobIds(jobs, older, now))}}
    IN [i \in 1..Len(jobs) |->
           IF jobs[i].job_id \in selected
           THEN [jobs[i] EXCEPT !.status = "failed",
                                !.error_message = Some(CleanupMessage)]
           ELSE jobs[i]]

\* delete_job: DELETE FROM jobs WHERE job_id = ?
DeleteJob(jobs, job_id) ==
    SelectSeq(jobs, LAMBDA row : row.job_id # job_id)

\* delete_job: DELETE FROM job_logs WHERE job_id = ? and DELETE FROM
\* job_steps WHERE job_id = ?, on a table of either kind.
DeleteRowsOf(rows, job_id) ==
    SelectSeq(rows, LAMBDA row : row.job_id # job_id)

\* add_job_log: INSERT INTO job_logs (job_id, level, message); the table is
\* created with a FOREIGN KEY on jobs(job_id), which SQLite does not
\* enforce on a connection that has not set PRAGMA foreign_keys.
AddJobLog(logs, job_id, level, message) ==
    Append(logs, [job_id |-> job_id, level |-> level, message |-> message])

\* The step results of a job result, as step_results.items() lists them.
StepResultLists ==
    {<<>>,
     <<[step_name |-> "extract", status |-> "success"],
       [step_name |-> "load", status |-> "failed"]>>}

\* The job results save_job_result is given: the status, end_time (None or
\* set), total_records_processed, the errors and the step results.
JobResults ==
    [status : {"success", "failed"}, end_time : {None, Some(1)},
     total_records_processed : TotalRecords, errors : {<<>>, <<"boom">>},
     step_results : StepResultLists]

NoResult ==
    [status |-> "", end_time |-> None, total_records_processed |-> 0,
     errors |-> <<>>, step_results |-> <<>>]

\* "; ".join(result.errors) if result.errors else None, for the lists of
\* JobResults.
JoinErrors(errors) == IF errors = <<>> THEN None ELSE Some(errors[1])

\* save_job_result: the UPDATE of the job's row; completed_at is
\* result.end_time, or NULL when the result has none.
SaveJobResult(jobs, job_id, result) ==
    UpdateWhere(jobs, job_id,
        [i \in 1..Len(jobs) |->
            [jobs[i] EXCEPT !.status = result.status,
                            !.completed_at = result.end_time,
                            !.total_records = result.total_records_processed,
                            !.error_message = JoinErrors(result.errors)]])

\* save_job_result: one INSERT INTO job_steps per step result.
SaveJobSteps(steps, job_id, result) ==
    steps \o [i \in 1..Len(result.step_results) |->
                [job_id |-> job_id,
                 step_name |-> result.step_results[i].step_name,
                 status |-> result.step_results[i].status]]

\* get_job_steps: the rows of the job, ordered by id.
GetJobSteps(steps, job_id) ==
    SelectSeq(steps, LAMBDA row : row.job_id = job_id)

SmFrame == UNCHANGED <<pgVars, clVars, rlVars, trVars, ldVars, orVars, plVars, bdVars, chVars, ccVars, ppVars>>

NoCall ==
    [op |-> "none", job_id |-> "", status |-> "", error_message |-> None,
     older |-> None, returned |-> 0, raised |-> FALSE, before |-> <<>>,
     at |-> 0]

\* The rows earlier calls leave for a job: pending as create_job leaves it,
\* running as update_job_status leaves it, success and failed as
\* update_job_completion leaves them.
StoredRows(job_id, created_at) ==
    {[job_id |-> job_id, status |-> "pending", total_records |-> 0,
      error_message |-> None, completed_at |-> None,
      created_at |-> created_at],
     [job_id |-> job_id, status |-> "running", total_records |-> 0,
      error_message |-> None, completed_at |-> None,
      created_at |-> created_at],
     [job_id |-> job_id, status |-> "success", total_records |-> 3,
      error_message |-> None, completed_at |-> Some(created_at),
      created_at |-> created_at],
     [job_id |-> job_id, status |-> "failed", total_records |-> 0,
      error_message |-> Some("boom"), completed_at |-> Some(created_at),
      created_at |-> created_at]}

\* The tables the database file holds when a StateManager opens it at
\* second 1: no row, or a row for j1 created at second 0, a row for j2
\* created at second 1, or both.
InitialJobs ==
    {<<>>}
        \cup {<<r>> : r \in StoredRows("j1", 0) \cup StoredRows("j2", 1)}
        \cup {<<r1, r2>> : r1 \in StoredRows("j1", 0),
                            r2 \in StoredRows("j2", 1)}

\* No save_job_result was called yet.
NoSave ==
    [times |-> 0, job_id |-> "", result |-> NoResult, jobs |-> <<>>,
     steps |-> <<>>]

SmInit ==
    /\ sm_jobs \in InitialJobs
    /\ sm_now = 1
    /\ sm_last = NoCall
    /\ sm_calls = 0
    /\ sm_steps = <<>>
    /\ sm_logs = <<>>
    /\ sm_save = NoSave

\* A database file in which every job has written a step and a log entry:
\* the jobs table holds j1, or j1 and j2, and job_steps and job_logs hold
\* one row for each job.
StoreJobs ==
    {<<r>> : r \in StoredRows("j1", 0)}
        \cup {<<r1, r2>> : r1 \in StoredRows("j1", 0),
                            r2 \in StoredRows("j2", 1)}

StoreSteps(jobs) ==
    [i \in 1..Len(jobs) |->
        [job_id |-> jobs[i].job_id, step_name |-> "extract",
         status |-> "success"]]

StoreLogs(jobs) ==
    AddJobLog(IF Len(jobs) = 2
              THEN AddJobLog(<<>>, jobs[2].job_id, "INFO", "started")
              ELSE <<>>,
              jobs[1].job_id, "INFO", "started")

SmInitStore ==
    /\ sm_jobs \in StoreJobs
    /\ sm_now = 1
    /\ sm_last = NoCall
    /\ sm_calls = 0
    /\ sm_steps = StoreSteps(sm_jobs)
    /\ sm_logs = StoreLogs(sm_jobs)
    /\ sm_save = NoSave

\* What every call leaves in sm_last and sm_calls.
SmCalled(op, job_id, status, error_message, older, returned, raised) ==
    /\ sm_calls < MaxCalls
    /\ sm_calls' = sm_calls + 1
    /\ sm_last' = [op |-> op, job_id |-> job_id, status |-> status,
                   error_message |-> error_message, older |-> older,
                   returned |-> returned, raised |-> raised,
                   before |-> sm_jobs, at |-> sm_now]
    /\ UNCHANGED sm_now

SmCreateJob(job_id) ==
    /\ SmFrame
    /\ UNCHANGED <<sm_steps, sm_logs, sm_save>>
    /\ SmCalled("create_job", job_id, "", None, None, 0,
                CreateJobRaises(sm_jobs, job_id))
    /\ sm_jobs' = IF CreateJobRaises(sm_jobs, job_id)
                  THEN sm_jobs
                  ELSE CreateJob(sm_jobs, job_id, sm_now)

SmUpdateJobStatus(job_id, status, error_message) ==
    /\ SmFrame
    /\ UNCHANGED <<sm_steps, sm_logs, sm_save>>
    /\ SmCalled("update_job_status", job_id, status, error_message, None, 0,
                FALSE)
    /\ sm_jobs' = UpdateJobStatus(sm_jobs, job_id, status, error_message)

SmUpdateJobCompletion(job_id, status, total_records, error_message) ==
    /\ SmFrame
    /\ UNCHANGED <<sm_steps, sm_logs, sm_save>>
    /\ SmCalled("update_job_completion", job_id, status, error_message, None,
                0, FALSE)
    /\ sm_jobs' = UpdateJobCompletion(sm_jobs, job_id, status, total_records,
                                      error_message, sm_now)

SmCleanupPendingJobs(older) ==
    /\ SmFrame
    /\ UNCHANGED <<sm_steps, sm_logs, sm_save>>
    /\ SmCalled("cleanup_pending_jobs", "", "", None, older,
                Len(CleanupJobIds(sm_jobs, older, sm_now)), FALSE)
    /\ sm_jobs' = CleanupPendingJobs(sm_jobs, older, sm_now)

SmDeleteJob(job_id) ==
    /\ SmFrame
    /\ SmCalled("delete_job", job_id, "", None, None, 0, FALSE)
    /\ sm_logs' = DeleteRowsOf(sm_logs, job_id)
    /\ sm_steps' = DeleteRowsOf(sm_steps, job_id)
    /\ sm_jobs' = DeleteJob(sm_jobs, job_id)
    /\ UNCHANGED sm_save

SmAddJobLog(job_id, level, message) ==
    /\ SmFrame
    /\ SmCalled("add_job_log", job_id, "", None, None, 0, FALSE)
    /\ sm_logs' = AddJobLog(sm_logs, job_id, level, message)
    /\ UNCHANGED <<sm_jobs, sm_steps, sm_save>>

SmSaveJobResult(job_id, result) ==
    /\ SmFrame
    /\ SmCalled("save_job_result", job_id, result.status,
                JoinErrors(result.errors), None, 0, FALSE)
    /\ sm_jobs' = SaveJobResult(sm_jobs, job_id, result)
    /\ sm_steps' = SaveJobSteps(sm_steps, job_id, result)
    /\ sm_save' = [times |-> 1, job_id |-> job_id, result |-> result,
                   jobs |-> sm_jobs', steps |-> sm_steps']
    /\ UNCHANGED sm_logs

\* save_job_result is called a second time with the job_id and the result
\* of the call before.
SmSaveJobResultAgain ==
    /\ SmFrame
    /\ sm_last.op = "save_job_result"
    /\ sm_save.times = 1
    /\ sm_jobs' = SaveJobResult(sm_jobs, sm_save.job_id, sm_save.result)
    /\ sm_steps' = SaveJobSteps(sm_steps, sm_save.job_id, sm_save.result)
    /\ sm_save' = [sm_save EXCEPT !.times = 2]
    /\ UNCHANGED <<sm_now, sm_last, sm_calls, sm_logs>>

\* A second passes before the next call.
SmTick ==
    /\ SmFrame
    /\ sm_calls < MaxCalls
    /\ sm_now < MaxClock
    /\ sm_now' = sm_now + 1
    /\ UNCHANGED <<sm_jobs, sm_last, sm_calls, sm_steps, sm_logs, sm_save>>

SmNext ==
    \/ \E job_id \in JobIds : SmCreateJob(job_id)
    \/ \E job_id \in JobIds, status \in JobStatuses,
          error_message \in ErrorMessages :
            SmUpdateJobStatus(job_id, status, error_message)
    \/ \E job_id \in JobIds, status \in JobStatuses,
          total_records \in TotalRecords, error_message \in ErrorMessages :
            SmUpdateJobCompletion(job_id, status, total_records, error_message)
    \/ \E older \in OlderThan : SmCleanupPendingJobs(older)
    \/ \E job_id \in JobIds : SmDeleteJob(job_id)
    \/ \E job_id \in JobIds, result \in JobResults :
            SmSaveJobResult(job_id, result)
    \/ SmSaveJobResultAgain
    \/ \E job_id \in JobIds : SmAddJobLog(job_id, "INFO", "started")
    \/ SmTick

----------------------------------------------------------------------------
\* ETLOrchestrator.run_full_etl (src/src/orchestrator/pipeline.py)

MaxParents == 3

Codes == {"A1", "A2", "A3"}

\* The child pipelines of one award, in the order run_full_etl runs them.
ChildKinds ==
    <<"classifications", "pay_rates", "expense_allowances", "wage_allowances">>

\* award_codes: None or a list of codes, duplicates included.
AwardCodeLists == {None} \cup {Some(l) : l \in SeqsUpTo(Codes, MaxParents)}

\* The extractor classes whose constructor takes no required argument: the
\* classifications, pay rates and expense allowances extractors require
\* api_client, which _create_*_pipeline does not pass (TypeError).
ExtractorConstructs(kind) == kind \in {"awards", "wage_allowances"}

\* BulkLoader.__init__: the parameters that have no default.
BulkLoaderRequired == {"source_key", "table_name", "key_columns"}

\* The keyword arguments each _create_*_pipeline passes to BulkLoader.
BulkLoaderArguments == {"connector", "table_name", "key_columns"}

\* A call that leaves out a required parameter raises TypeError.
LoaderConstructs == BulkLoaderRequired \subseteq BulkLoaderArguments

\* _create_*_pipeline returns a pipeline when the extractor and the loader
\* can both be built.
PipelineConstructs(kind) == ExtractorConstructs(kind) /\ LoaderConstructs

\* The methods StateManager defines.
StateManagerMethods ==
    {"initialize", "create_job", "update_job_status", "update_job_completion",
     "get_job", "list_jobs", "get_job_count", "add_job_log", "get_job_logs",
     "delete_job", "cleanup_pending_jobs", "save_job_result", "get_job_steps",
     "get_recent_job_stats"}

\* A call of a method the object does not define raises AttributeError.
RaisesAttributeError(method) == method \notin StateManagerMethods

\* The job_id the run is given.
OrJobId == "j1"

OrFrame == UNCHANGED <<pgVars, clVars, rlVars, trVars, ldVars, plVars, bdVars, chVars, ccVars, ppVars>>

NoChildren ==
    [kind \in {ChildKinds[k] : k \in 1..Len(ChildKinds)} |->
        [code \in Codes |-> None]]

OrRest ==
    /\ or_pc = "idle"
    /\ or_override = None
    /\ or_awards = None
    /\ or_children = NoChildren
    /\ or_runs = <<>>
    /\ or_status = ""
    /\ or_error = None
    /\ or_exc = None

\* The run starts on a database that holds no job or an earlier job with
\* the same job_id.
OrInit ==
    /\ OrRest
    /\ sm_jobs \in {<<>>} \cup {<<r>> : r \in StoredRows(OrJobId, 0)}
    /\ sm_now = 1
    /\ sm_last = NoCall
    /\ sm_calls = 0
    /\ sm_steps = <<>>
    /\ sm_logs = <<>>
    /\ sm_save = NoSave

\* run_full_etl(award_codes, job_id) is called.
OrCall(award_codes) ==
    /\ OrFrame
    /\ or_pc = "idle"
    /\ or_override' = award_codes
    /\ or_pc' = "create_job"
    /\ UNCHANGED <<or_awards, or_children, or_runs, or_status, or_error,
                   smVars, or_exc>>

\* state_manager.create_job(job_id, "full_etl")
OrCreateJob ==
    /\ OrFrame
    /\ or_pc = "create_job"
    /\ ~CreateJobRaises(sm_jobs, OrJobId)
    /\ sm_jobs' = CreateJob(sm_jobs, OrJobId, sm_now)
    /\ or_pc' = "awards"
    /\ UNCHANGED <<or_override, or_awards, or_children, or_runs, or_status,
                   or_error, or_exc, sm_now, sm_last, sm_calls, sm_steps,
                   sm_logs, sm_save>>

\* state_manager.create_job raises, the database being locked or out of
\* reach: the exception is caught by the handler of the outer try.
OrCreateJobRaises ==
    /\ OrFrame
    /\ or_pc = "create_job"
    /\ or_exc' = Some("OperationalError")
    /\ or_pc' = "except"
    /\ UNCHANGED <<or_override, or_awards, or_children, or_runs, or_status,
                   or_error, smVars>>

\* self._create_awards_pipeline(): BulkLoader is called without source_key
\* and raises TypeError, which the handler of the outer try catches.  The
\* awards pipeline is not run, results["pipelines"] stays empty and the loop
\* over the award codes (lines 188-254) is not reached.
OrCreateAwardsPipelineRaises ==
    /\ OrFrame
    /\ or_pc = "awards"
    /\ ~PipelineConstructs("awards")
    /\ or_exc' = Some("TypeError")
    /\ or_pc' = "except"
    /\ UNCHANGED <<or_override, or_awards, or_children, or_runs, or_status,
                   or_error, smVars>>

\* The handler: results["status"] = "failed", results["error"] = str(e),
\* then state_manager.update_job(...), which StateManager does not define:
\* the AttributeError leaves run_full_etl, which returns nothing.
OrMarkFailed ==
    /\ OrFrame
    /\ or_pc = "except"
    /\ or_status' = "failed"
    /\ or_error' = or_exc
    /\ RaisesAttributeError("update_job")
    /\ or_pc' = "raised"
    /\ UNCHANGED <<or_override, or_awards, or_children, or_runs, smVars,
                   or_exc>>

OrNext ==
    \/ \E award_codes \in AwardCodeLists : OrCall(award_codes)
    \/ OrCreateJob
    \/ OrCreateJobRaises
    \/ OrCreateAwardsPipelineRaises
    \/ OrMarkFailed

----------------------------------------------------------------------------
\* Pipeline.run (src/src/core/pipeline.py), the extract step of the
\* extractors and ETLOrchestrator.run_single_pipeline

MaxHooks == 2

\* The numbers of hooks a pipeline is built with: none, or MaxHooks.
HookCounts == {0, MaxHooks}

\* The record lists a step can return.
DataLists == {<<>>, <<"a">>, <<"a", "b">>}

\* The extractors a pipeline is built with: the five of the orchestrator and
\* a step that overrides execute.
ExtractorKinds ==
    {"awards", "classifications", "pay_rates", "expense_allowances",
     "wage_allowances", "custom"}

\* The extractors that derive from BaseFWCExtractor.
FWCExtractors == {"awards", "wage_allowances"}

\* The extractors that derive from Extractor and define extract(self, context).
ContextOnlyExtractors == {"classifications", "pay_rates", "expense_allowances"}

\* params.get("award_code"): None, the empty string or a code.
AwardCodeParams == {None, Some(""), Some("A1")}

\* The pipeline types run_single_pipeline is asked for; "penalties" is not
\* in its pipeline_map.
PipelineTypes ==
    {"awards", "classifications", "pay_rates", "expense_allowances",
     "wage_allowances", "penalties"}

\* A StepResult with its data: None, or the data the step returned.
StepResult(status, data, error) ==
    [status |-> status, data |-> data, error |-> error]

NoStepResult == StepResult("absent", None, None)

\* What a call of step.execute gives: a StepResult, or an exception.
Returns(result) == [raised |-> FALSE, result |-> result]

Raises == [raised |-> TRUE, result |-> NoStepResult]

AwardCodeNeverMissing(award_code) == FALSE

\* WageAllowancesExtractor._fetch_data: `if not award_code`.
AwardCodeMissing(award_code) == ~TruthyStr(award_code)

\* extractor.execute(params, context), by the extractor.  A BaseFWCExtractor
\* returns the records fetched, or FAILED when _fetch_data raises: always for
\* wage allowances without award_code.  Extractor.execute calls
\* self.extract(data, context): on an extractor that defines
\* extract(self, context) that is a TypeError, caught and returned as FAILED.
ExtractOutcomes(kind, award_code) ==
    IF kind \in ContextOnlyExtractors
    THEN {Returns(StepResult("failed", None, Some("TypeError")))}
    ELSE IF kind = "wage_allowances" /\ AwardCodeMissing(award_code)
    THEN {Returns(StepResult("failed", None, Some("ValueError")))}
    ELSE {Returns(StepResult("success", Some(d), None)) : d \in DataLists}
            \cup {Returns(StepResult("failed", None, Some("FWCAPIError")))}
            \cup (IF kind = "custom" THEN {Raises} ELSE {})

\* transformer.execute(data, context): any records, FAILED, or an exception
\* from a step that overrides execute.
TransformOutcomes(data) ==
    {Returns(StepResult("success", Some(d), None)) : d \in DataLists}
        \cup {Returns(StepResult("failed", None, Some("error")))}
        \cup {Raises}

\* loader.execute(data, context): the number of records loaded, FAILED, or an
\* exception from a step that overrides execute.
LoadOutcomes(data) ==
    {Returns(StepResult("success", Some(n), None)) : n \in 0..Len(data)}
        \cup {Returns(StepResult("failed", None, Some("error")))}
        \cup {Raises}

StageSucceededAlways(result) == TRUE

\* Pipeline.run: `if result.status != StepStatus.SUCCESS: return context`
StageSucceeded(result) == result.status = "success"

\* Pipeline.run: `result.data or []`
DataOrEmpty(result) ==
    IF TruthyList(result.data) THEN result.data[1] ELSE <<>>

\* PipelineContext has no attribute `data`: context.data raises
\* AttributeError.
ContextAttributes ==
    {"job_id", "started_at", "parameters", "metadata", "errors",
     "step_results"}

\* ClassificationsExtractor.extract(context), PayRatesExtractor.extract and
\* ExpenseAllowancesExtractor.extract called as defined, with the
\* award_codes the extractor was built with: without them the codes are read
\* from context.data, and [] is returned when there are none.
DirectExtractOutcomes(award_codes) ==
    IF TruthyList(award_codes)
    THEN {"success"}
    ELSE IF "data" \in ContextAttributes
         THEN {"success_empty"}
         ELSE {"raised"}

\* run_single_pipeline: the ValueError of an unknown pipeline type or of a
\* missing award_code.
SingleRaisesValueError(pipeline_type, award_code) ==
    \/ pipeline_type \notin
            {"awards", "classifications", "pay_rates", "expense_allowances",
             "wage_allowances"}
    \/ pipeline_type # "awards" /\ ~TruthyStr(award_code)

PlFrame == UNCHANGED <<pgVars, clVars, rlVars, trVars, ldVars, smVars, orVars, bdVars, chVars, ccVars, ppVars>>

NoExtraction == [kind |-> "", has_code |-> FALSE, outcome |-> "none"]

NoSteps ==
    [extract |-> NoStepResult, transform |-> NoStepResult,
     load |-> NoStepResult]

PlInit ==
    /\ pl_pc = "idle"
    /\ pl_extractor = ""
    /\ pl_params = None
    /\ pl_hooks = [pre |-> 0, post |-> 0]
    /\ pl_idx = 1
    /\ pl_calls = <<>>
    /\ pl_steps = NoSteps
    /\ pl_errors = <<>>
    /\ pl_extraction = NoExtraction

\* A call of a hook or of a step, as pl_calls keeps it.
Called(what, input, raised) ==
    [what |-> what, input |-> input, raised |-> raised]

\* Pipeline.run(params, job_id) on a pipeline built with the extractor and
\* with `pre` pre-hooks and `post` post-hooks.
PlRun(kind, award_code, pre, post) ==
    /\ PlFrame
    /\ pl_pc = "idle"
    /\ pl_extractor' = kind
    /\ pl_params' = award_code
    /\ pl_hooks' = [pre |-> pre, post |-> post]
    /\ pl_idx' = 1
    /\ pl_pc' = "pre"
    /\ UNCHANGED <<pl_calls, pl_steps, pl_errors, pl_extraction>>

\* run_single_pipeline(pipeline_type, award_code) raises ValueError, or
\* TypeError when the pipeline cannot be built (which is the case of each
\* of the five types: no call returns a context).
PlRunSingleRaises(pipeline_type, award_code) ==
    /\ PlFrame
    /\ pl_pc = "idle"
    /\ \/ SingleRaisesValueError(pipeline_type, award_code)
       \/ ~PipelineConstructs(pipeline_type)
    /\ pl_extractor' = pipeline_type
    /\ pl_params' = award_code
    /\ pl_extraction' = [kind |-> pipeline_type,
                         has_code |-> TruthyStr(award_code),
                         outcome |-> "raised"]
    /\ pl_pc' = "raised"
    /\ UNCHANGED <<pl_hooks, pl_idx, pl_calls, pl_steps, pl_errors>>

\* extract(context) of an extractor that defines it so, called as defined.
PlDirectExtract(kind, award_codes, outcome) ==
    /\ PlFrame
    /\ pl_pc = "idle"
    /\ kind \in ContextOnlyExtractors
    /\ outcome \in DirectExtractOutcomes(award_codes)
    /\ pl_extractor' = kind
    /\ pl_extraction' = [kind |-> kind,
                         has_code |-> TruthyList(award_codes),
                         outcome |-> outcome]
    /\ pl_pc' = IF outcome = "raised" THEN "raised" ELSE "returned"
    /\ UNCHANGED <<pl_params, pl_hooks, pl_idx, pl_calls, pl_steps, pl_errors>>

\* A pre-hook is called; an exception it raises is caught and logged.
PlPreHook(raised) ==
    /\ PlFrame
    /\ pl_pc = "pre"
    /\ pl_idx <= pl_hooks.pre
    /\ pl_calls' = Append(pl_calls, Called("pre_hook", <<>>, raised))
    /\ pl_idx' = pl_idx + 1
    /\ UNCHANGED <<pl_pc, pl_extractor, pl_params, pl_hooks, pl_steps,
                   pl_errors, pl_extraction>>

\* Where run goes after a step: on when the step succeeded, back to the
\* caller when it returned another status, to the post-hooks when it raised
\* (the exception is added to context.errors).
AfterStep(outcome, next) ==
    /\ pl_pc' = IF outcome.raised THEN "post"
                ELSE IF StageSucceeded(outcome.result) THEN next
                ELSE "returned"
    /\ pl_errors' = IF outcome.raised
                    THEN Append(pl_errors, "error")
                    ELSE pl_errors
    /\ pl_idx' = 1

\* extractor.execute(context.parameters, context)
PlExtract(outcome) ==
    /\ PlFrame
    /\ pl_pc = "pre"
    /\ pl_idx > pl_hooks.pre
    /\ outcome \in ExtractOutcomes(pl_extractor, pl_params)
    /\ pl_calls' = Append(pl_calls, Called("extract", <<>>, outcome.raised))
    /\ pl_steps' = IF outcome.raised
                   THEN pl_steps
                   ELSE [pl_steps EXCEPT !.extract = outcome.result]
    /\ pl_extraction' = [kind |-> pl_extractor,
                         has_code |-> TruthyStr(pl_params),
                         outcome |-> IF outcome.raised
                                     THEN "raised"
                                     ELSE outcome.result.status]
    /\ AfterStep(outcome, "transform")
    /\ UNCHANGED <<pl_extractor, pl_params, pl_hooks>>

\* transformer.execute(extract_result.data or [], context)
PlTransform(outcome) ==
    /\ PlFrame
    /\ pl_pc = "transform"
    /\ outcome \in TransformOutcomes(DataOrEmpty(pl_steps.extract))
    /\ pl_calls' = Append(pl_calls,
            Called("transform", DataOrEmpty(pl_steps.extract), outcome.raised))
    /\ pl_steps' = IF outcome.raised
                   THEN pl_steps
                   ELSE [pl_steps EXCEPT !.transform = outcome.result]
    /\ AfterStep(outcome, "load")
    /\ UNCHANGED <<pl_extractor, pl_params, pl_hooks, pl_extraction>>

\* loader.execute(transform_result.data or [], context)
PlLoad(outcome) ==
    /\ PlFrame
    /\ pl_pc = "load"
    /\ outcome \in LoadOutcomes(DataOrEmpty(pl_steps.transform))
    /\ pl_calls' = Append(pl_calls,
            Called("load", DataOrEmpty(pl_steps.transform), outcome.raised))
    /\ pl_steps' = IF outcome.raised
                   THEN pl_steps
                   ELSE [pl_steps EXCEPT !.load = outcome.result]
    /\ AfterStep(outcome, "post")
    /\ UNCHANGED <<pl_extractor, pl_params, pl_hooks, pl_extraction>>

\* A post-hook is called; an exception it raises is caught and logged.
PlPostHook(raised) ==
    /\ PlFrame
    /\ pl_pc = "post"
    /\ pl_idx <= pl_hooks.post
    /\ pl_calls' = Append(pl_calls, Called("post_hook", <<>>, raised))
    /\ pl_idx' = pl_idx + 1
    /\ UNCHANGED <<pl_pc, pl_extractor, pl_params, pl_hooks, pl_steps,
                   pl_errors, pl_extraction>>

\* return context, after the post-hooks.
PlReturn ==
    /\ PlFrame
    /\ pl_pc = "post"
    /\ pl_idx > pl_hooks.post
    /\ pl_pc' = "returned"
    /\ UNCHANGED <<pl_extractor, pl_params, pl_hooks, pl_idx, pl_calls,
                   pl_steps, pl_errors, pl_extraction>>

PlNext ==
    \/ \E kind \in ExtractorKinds, award_code \in AwardCodeParams,
          pre \in HookCounts, post \in HookCounts :
            PlRun(kind, award_code, pre, post)
    \/ \E pipeline_type \in PipelineTypes, award_code \in AwardCodeParams :
            PlRunSingleRaises(pipeline_type, award_code)
    \/ \E kind \in ContextOnlyExtractors,
          award_codes \in {None, Some(<<>>), Some(<<"A1">>)},
          outcome \in {"success", "success_empty", "raised"} :
            PlDirectExtract(kind, award_codes, outcome)
    \/ \E raised \in BOOLEAN : PlPreHook(raised)
    \/ \E outcome \in ExtractOutcomes(pl_extractor, pl_params) :
            PlExtract(outcome)
    \/ \E outcome \in TransformOutcomes(DataOrEmpty(pl_steps.extract)) :
            PlTransform(outcome)
    \/ \E outcome \in LoadOutcomes(DataOrEmpty(pl_steps.transform)) :
            PlLoad(outcome)
    \/ \E raised \in BOOLEAN : PlPostHook(raised)
    \/ PlReturn

----------------------------------------------------------------------------
\* PipelineBuilder (src/src/core/pipeline.py)

\* The names a builder is made with.
PipelineNames == {"p1", "p2"}

\* The steps passed to with_extractor, with_transformer and with_loader:
\* no step class defines __bool__ or __len__, so every step is truthy.
Steps == {"s1", "s2"}

\* The hooks passed to add_pre_hook and add_post_hook.
HookFunctions == {"h1"}

\* PipelineBuilder.__init__
NewBuilder(name) ==
    [name |-> name, extractor |-> None, transformer |-> None,
     loader |-> None, pre_hooks |-> <<>>, post_hooks |-> <<>>]

\* Pipeline.__init__
NewPipeline(name, extractor, transformer, loader, pre_hooks, post_hooks) ==
    [name |-> name, extractor |-> extractor, transformer |-> transformer,
     loader |-> loader, pre_hooks |-> pre_hooks, post_hooks |-> post_hooks]

ComponentNeverUnset(component) == FALSE

\* build: `if not self._extractor`, of a step or None.
ComponentUnset(component) == component = None

\* build: the message of the ValueError, "" when there is none.
BuildError(builder) ==
    IF ComponentUnset(builder.extractor) THEN "Extractor is required"
    ELSE IF ComponentUnset(builder.transformer) THEN "Transformer is required"
    ELSE IF ComponentUnset(builder.loader) THEN "Loader is required"
    ELSE ""

\* build: the Pipeline returned, None when build raises.
Build(builder) ==
    IF BuildError(builder) # ""
    THEN None
    ELSE Some(NewPipeline(builder.name, builder.extractor,
                          builder.transformer, builder.loader,
                          builder.pre_hooks, builder.post_hooks))

BdFrame == UNCHANGED <<pgVars, clVars, rlVars, trVars, ldVars, smVars, orVars, plVars, chVars, ccVars, ppVars>>

NoBuild == [called |-> FALSE, builder |-> NewBuilder(""), error |-> "",
            pipeline |-> None]

BdInit ==
    /\ bd_builder \in {NewBuilder(name) : name \in PipelineNames}
    /\ bd_built = NoBuild

BdWithExtractor(extractor) ==
    /\ BdFrame
    /\ bd_builder' = [bd_builder EXCEPT !.extractor = Some(extractor)]
    /\ UNCHANGED bd_built

BdWithTransformer(transformer) ==
    /\ BdFrame
    /\ bd_builder' = [bd_builder EXCEPT !.transformer = Some(transformer)]
    /\ UNCHANGED bd_built

BdWithLoader(loader) ==
    /\ BdFrame
    /\ bd_builder' = [bd_builder EXCEPT !.loader = Some(loader)]
    /\ UNCHANGED bd_built

BdAddPreHook(hook) ==
    /\ BdFrame
    /\ Len(bd_builder.pre_hooks) < MaxHooks
    /\ bd_builder' = [bd_builder EXCEPT !.pre_hooks = Append(@, hook)]
    /\ UNCHANGED bd_built

BdAddPostHook(hook) ==
    /\ BdFrame
    /\ Len(bd_builder.post_hooks) < MaxHooks
    /\ bd_builder' = [bd_builder EXCEPT !.post_hooks = Append(@, hook)]
    /\ UNCHANGED bd_built

\* build(), which raises ValueError or returns the Pipeline.
BdBuild ==
    /\ BdFrame
    /\ bd_built' = [called |-> TRUE, builder |-> bd_builder,
                    error |-> BuildError(bd_builder),
                    pipeline |-> Build(bd_builder)]
    /\ UNCHANGED bd_builder

BdNext ==
    \/ \E extractor \in Steps : BdWithExtractor(extractor)
    \/ \E transformer \in Steps : BdWithTransformer(transformer)
    \/ \E loader \in Steps : BdWithLoader(loader)
    \/ \E hook \in HookFunctions : BdAddPreHook(hook)
    \/ \E hook \in HookFunctions : BdAddPostHook(hook)
    \/ BdBuild

----------------------------------------------------------------------------
\* chunk_list (src/src/utils/helpers.py)

MaxChunkData == 4

MaxChunkSize == 3

\* The lists chunk_list is called with.
ChunkData == SeqsUpTo({"a", "b"}, MaxChunkData)

\* The chunk sizes it is called with; range(0, len(data), 0) raises
\* ValueError.
ChunkSizes == 0..MaxChunkSize

ChFrame == UNCHANGED <<pgVars, clVars, rlVars, trVars, ldVars, smVars, orVars, plVars, bdVars, ccVars, ppVars>>

ChInit ==
    /\ ch_data \in ChunkData
    /\ ch_size \in ChunkSizes
    /\ ch_pc = "idle"
    /\ ch_chunks = <<>>

\* chunk_list(data, chunk_size) returns the chunks.
ChChunkList ==
    /\ ChFrame
    /\ ch_pc = "idle"
    /\ ch_size >= 1
    /\ ch_chunks' = ChunkList(ch_data, ch_size)
    /\ ch_pc' = "returned"
    /\ UNCHANGED <<ch_data, ch_size>>

\* chunk_list(data, 0): range() raises ValueError.
ChChunkListRaises ==
    /\ ChFrame
    /\ ch_pc = "idle"
    /\ ch_size = 0
    /\ ch_pc' = "raised"
    /\ UNCHANGED <<ch_data, ch_size, ch_chunks>>

ChNext ==
    \/ ChChunkList
    \/ ChChunkListRaises

----------------------------------------------------------------------------
\* StateManager calls on separate connections to the same database file
\* (src/src/orchestrator/state_manager.py)
\*
\* Every call opens its own connection; each awaited statement is a step.
\* A connection holds the write lock of the file from its first INSERT or
\* UPDATE to its commit, and a statement that needs the lock waits for it.
\* A SELECT reads the committed table.

\* Two create_job("j1") calls, a pipeline run that moves j1 to running and
\* then completes it, and a cleanup_pending_jobs().
Creators == {"create1", "create2"}

Connections == Creators \cup {"runner", "cleanup"}

CcJobId == "j1"

\* create_job: the UPDATE of the branch `if existing`.
ResetJob(jobs, job_id) ==
    UpdateWhere(jobs, job_id,
        [i \in 1..Len(jobs) |->
            [jobs[i] EXCEPT !.status = "pending", !.error_message = None]])

\* cleanup_pending_jobs: the UPDATE of one jid of job_ids; its WHERE clause
\* is "job_id = ?" alone.
CleanupMarkFailed(jobs, jid) ==
    UpdateWhere(jobs, jid,
        [i \in 1..Len(jobs) |->
            [jobs[i] EXCEPT !.status = "failed",
                            !.error_message = Some(CleanupMessage)]])

\* The table a statement of the connection works on: the connection's own
\* uncommitted work when it holds the write lock, the committed table
\* otherwise.
CcView(p) == IF cc_lock = p THEN cc_work ELSE cc_jobs

\* The write lock is free or held by the connection.
CcCanWrite(p) == cc_lock \in {"", p}

CcFrame == UNCHANGED <<pgVars, clVars, rlVars, trVars, ldVars, smVars, orVars, plVars, bdVars, chVars, ppVars>>

\* The database holds no job, or the pending job j1 (with or without a
\* pending job j2), as create_job left them.
CcInit ==
    /\ cc_jobs \in
        {<<>>,
         <<CreateJob(<<>>, "j1", 0)[1]>>,
         <<CreateJob(<<>>, "j1", 0)[1], CreateJob(<<>>, "j2", 0)[1]>>}
    /\ cc_work = <<>>
    /\ cc_lock = ""
    /\ cc_pc = [p \in Connections |-> "start"]
    /\ cc_existing = [p \in Creators |-> None]
    /\ cc_raised = [p \in Connections |-> None]
    /\ cc_job_ids = <<>>
    /\ cc_idx = 1
    /\ cc_overwritten = {}

\* create_job: "SELECT * FROM jobs WHERE job_id = ?" and fetchone.
CcCreateSelect(p) ==
    /\ CcFrame
    /\ cc_pc[p] = "start"
    /\ cc_existing' = [cc_existing EXCEPT ![p] = GetJob(cc_jobs, CcJobId)]
    /\ cc_pc' = [cc_pc EXCEPT ![p] = "write"]
    /\ UNCHANGED <<cc_jobs, cc_work, cc_lock, cc_raised, cc_job_ids, cc_idx,
                   cc_overwritten>>

\* create_job: the UPDATE when the SELECT returned a row, the INSERT
\* otherwise.
CcCreateWrite(p) ==
    /\ CcFrame
    /\ cc_pc[p] = "write"
    /\ CcCanWrite(p)
    /\ Existing(cc_existing[p]) \/ ~UniqueViolation(cc_jobs, CcJobId)
    /\ cc_work' = IF Existing(cc_existing[p])
                  THEN ResetJob(cc_jobs, CcJobId)
                  ELSE CreateJob(cc_jobs, CcJobId, 1)
    /\ cc_lock' = p
    /\ cc_pc' = [cc_pc EXCEPT ![p] = "commit"]
    /\ UNCHANGED <<cc_jobs, cc_existing, cc_raised, cc_job_ids, cc_idx,
                   cc_overwritten>>

\* create_job: the INSERT of a job_id another connection has inserted since
\* the SELECT raises sqlite3.IntegrityError, which create_job does not catch.
CcCreateInsertRaises(p) ==
    /\ CcFrame
    /\ cc_pc[p] = "write"
    /\ CcCanWrite(p)
    /\ ~Existing(cc_existing[p])
    /\ UniqueViolation(cc_jobs, CcJobId)
    /\ cc_raised' = [cc_raised EXCEPT ![p] = Some("IntegrityError")]
    /\ cc_pc' = [cc_pc EXCEPT ![p] = "raised"]
    /\ UNCHANGED <<cc_jobs, cc_work, cc_lock, cc_existing, cc_job_ids, cc_idx,
                   cc_overwritten>>

\* db.commit() of a connection that holds the write lock.
CcCommit(p, next) ==
    /\ CcFrame
    /\ cc_lock = p
    /\ cc_jobs' = cc_work
    /\ cc_work' = <<>>
    /\ cc_lock' = ""
    /\ cc_pc' = [cc_pc EXCEPT ![p] = next]
    /\ UNCHANGED <<cc_existing, cc_raised, cc_job_ids, cc_idx, cc_overwritten>>

CcCreateCommit(p) ==
    /\ cc_pc[p] = "commit"
    /\ CcCommit(p, "done")

\* The pipeline run: update_job_status(job_id, "running").
CcRunnerStatus ==
    /\ CcFrame
    /\ cc_pc["runner"] = "start"
    /\ CcCanWrite("runner")
    /\ cc_work' = UpdateJobStatus(cc_jobs, CcJobId, "running", None)
    /\ cc_lock' = "runner"
    /\ cc_pc' = [cc_pc EXCEPT !["runner"] = "status_commit"]
    /\ UNCHANGED <<cc_jobs, cc_existing, cc_raised, cc_job_ids, cc_idx,
                   cc_overwritten>>

CcRunnerStatusCommit ==
    /\ cc_pc["runner"] = "status_commit"
    /\ CcCommit("runner", "running")

\* The pipeline run: update_job_completion(job_id, status, total_records).
CcRunnerCompletion(status) ==
    /\ CcFrame
    /\ cc_pc["runner"] = "running"
    /\ CcCanWrite("runner")
    /\ cc_work' = UpdateJobCompletion(cc_jobs, CcJobId, status, 3, None, 1)
    /\ cc_lock' = "runner"
    /\ cc_pc' = [cc_pc EXCEPT !["runner"] = "completion_commit"]
    /\ UNCHANGED <<cc_jobs, cc_existing, cc_raised, cc_job_ids, cc_idx,
                   cc_overwritten>>

CcRunnerCompletionCommit ==
    /\ cc_pc["runner"] = "completion_commit"
    /\ CcCommit("runner", "done")

\* cleanup_pending_jobs(): the SELECT of the pending job ids and fetchall.
CcCleanupSelect ==
    /\ CcFrame
    /\ cc_pc["cleanup"] = "start"
    /\ cc_job_ids' = [i \in 1..Len(CleanupJobIds(cc_jobs, None, 1)) |->
                        CleanupJobIds(cc_jobs, None, 1)[i].job_id]
    /\ cc_idx' = 1
    /\ cc_pc' = [cc_pc EXCEPT !["cleanup"] = "update"]
    /\ UNCHANGED <<cc_jobs, cc_work, cc_lock, cc_existing, cc_raised,
                   cc_overwritten>>

\* The statuses other than pending of the rows of the job: what an UPDATE
\* of the cleanup writes over.
NotPendingOf(jobs, jid) ==
    {[job_id |-> jid, status |-> jobs[i].status] :
        i \in {k \in JobRows(jobs, jid) : jobs[k].status # "pending"}}

\* cleanup_pending_jobs: the UPDATE of the next jid of job_ids.
CcCleanupUpdate ==
    /\ CcFrame
    /\ cc_pc["cleanup"] = "update"
    /\ cc_idx <= Len(cc_job_ids)
    /\ CcCanWrite("cleanup")
    /\ cc_work' = CleanupMarkFailed(CcView("cleanup"), cc_job_ids[cc_idx])
    /\ cc_overwritten' = cc_overwritten
            \cup NotPendingOf(CcView("cleanup"), cc_job_ids[cc_idx])
    /\ cc_lock' = "cleanup"
    /\ cc_idx' = cc_idx + 1
    /\ UNCHANGED <<cc_jobs, cc_pc, cc_existing, cc_raised, cc_job_ids>>

\* cleanup_pending_jobs: db.commit() after the loop, and the return of
\* len(job_ids).
CcCleanupCommit ==
    /\ cc_pc["cleanup"] = "update"
    /\ cc_idx > Len(cc_job_ids)
    /\ IF cc_lock = "cleanup"
       THEN CcCommit("cleanup", "done")
       ELSE /\ CcFrame
            /\ cc_pc' = [cc_pc EXCEPT !["cleanup"] = "done"]
            /\ UNCHANGED <<cc_jobs, cc_work, cc_lock, cc_existing, cc_raised,
                           cc_job_ids, cc_idx, cc_overwritten>>

CcNext ==
    \/ \E p \in Creators : CcCreateSelect(p)
    \/ \E p \in Creators : CcCreateWrite(p)
    \/ \E p \in Creators : CcCreateInsertRaises(p)
    \/ \E p \in Creators : CcCreateCommit(p)
    \/ CcRunnerStatus
    \/ CcRunnerStatusCommit
    \/ \E status \in {"success", "failed"} : CcRunnerCompletion(status)
    \/ CcRunnerCompletionCommit
    \/ CcCleanupSelect
    \/ CcCleanupUpdate
    \/ CcCleanupCommit

----------------------------------------------------------------------------
\* ParallelPipeline (src/src/core/pipeline.py)

\* The longest list of pipelines and of parameters.
MaxParallel == 3

\* The pipelines a ParallelPipeline holds, by name.
ParallelPipelines == SeqsUpTo(PipelineNames, MaxParallel)

\* A parameter dict: {} or {"award_code": "A1"}.
ParamDicts == {"empty", "A1"}

\* params_list: None or a list of dicts.
ParamsLists == {None} \cup {Some(l) : l \in SeqsUpTo(ParamDicts, MaxParallel)}

\* params_list or [{}] * len(self.pipelines)
ParamsOrDefault(pipelines, params_list) ==
    IF TruthyList(params_list)
    THEN params_list[1]
    ELSE [i \in 1..Len(pipelines) |-> "empty"]

\* zip(self.pipelines, params_list, strict=False): the pairs up to the end
\* of the shorter list.
Zip(pipelines, params) ==
    [i \in 1..Min(Len(pipelines), Len(params)) |->
        [pipeline |-> pipelines[i], params |-> params[i]]]

\* tasks: one pipeline.run(params) per pair.
Tasks(pipelines, params_list) ==
    Zip(pipelines, ParamsOrDefault(pipelines, params_list))

PpFrame == UNCHANGED <<pgVars, clVars, rlVars, trVars, ldVars, smVars, orVars, plVars, bdVars, chVars, ccVars>>

PpInit ==
    /\ pp_pipelines \in ParallelPipelines
    /\ pp_params = None
    /\ pp_pc = "idle"
    /\ pp_tasks = <<>>
    /\ pp_done = {}
    /\ pp_results = <<>>

\* ParallelPipeline.run(params_list): the tasks are made.
PpRun(params_list) ==
    /\ PpFrame
    /\ pp_pc = "idle"
    /\ pp_params' = params_list
    /\ pp_tasks' = Tasks(pp_pipelines, params_list)
    /\ pp_pc' = "gather"
    /\ UNCHANGED <<pp_pipelines, pp_done, pp_results>>

\* One of the tasks gathered runs to its end, in any order: Pipeline.run
\* returns its context.
PpTaskEnds(i) ==
    /\ PpFrame
    /\ pp_pc = "gather"
    /\ i \in 1..Len(pp_tasks)
    /\ i \notin pp_done
    /\ pp_done' = pp_done \cup {i}
    /\ UNCHANGED <<pp_pipelines, pp_params, pp_pc, pp_tasks, pp_results>>

\* asyncio.gather returns the contexts in the order of the tasks.
PpReturn ==
    /\ PpFrame
    /\ pp_pc = "gather"
    /\ pp_done = 1..Len(pp_tasks)
    /\ pp_results' = pp_tasks
    /\ pp_pc' = "returned"
    /\ UNCHANGED <<pp_pipelines, pp_params, pp_tasks, pp_done>>

PpNext ==
    \/ \E params_list \in ParamsLists : PpRun(params_list)
    \/ \E i \in 1..MaxParallel : PpTaskEnds(i)
    \/ PpReturn

----------------------------------------------------------------------------
\* Specifications

\* Each component at rest, as the specifications of the other components
\* keep it.
PgOff ==
    /\ pg_max_pages = None
    /\ pg_page = 1
    /\ pg_has_more = TRUE
    /\ pg_pc = "loop"
    /\ pg_log = <<>>
    /\ pg_fetched = <<>>
    /\ pg_all_records = <<>>
    /\ pg_pages_fetched = 0
    /\ pg_exc = None

ClOff == ClInit

RlOff ==
    /\ rl_ceiling = 1
    /\ rl_now = 0
    /\ rl_pc = [c \in Callers |-> "idle"]
    /\ rl_starts = <<>>

TrOff ==
    /\ tr_records = <<>>
    /\ tr_pos = 1
    /\ tr_transformed = <<>>
    /\ tr_errors = <<>>
    /\ tr_metadata = None
    /\ tr_pc = "loop"

LdOff ==
    /\ ld_key_columns = {}
    /\ ld_upsert = TRUE
    /\ ld_data = <<>>
    /\ ld_batch_size = 1
    /\ ld_table0 = <<>>
    /\ ld_table = <<>>
    /\ ld_start = <<>>
    /\ ld_run = 0
    /\ ld_pc = "idle"
    /\ ld_batch_num = 0
    /\ ld_attempts = 0
    /\ ld_total_loaded = 0
    /\ ld_errors = <<>>
    /\ ld_tries = <<>>
    /\ ld_failed = {}

SmOff ==
    /\ sm_jobs = <<>>
    /\ sm_now = 0
    /\ sm_last = NoCall
    /\ sm_calls = 0
    /\ sm_steps = <<>>
    /\ sm_logs = <<>>
    /\ sm_save = NoSave

OrOff == OrRest

PlOff == PlInit

BdOff ==
    /\ bd_builder = NewBuilder("")
    /\ bd_built = NoBuild

ChOff ==
    /\ ch_data = <<>>
    /\ ch_size = 1
    /\ ch_pc = "idle"
    /\ ch_chunks = <<>>

CcOff ==
    /\ cc_jobs = <<>>
    /\ cc_work = <<>>
    /\ cc_lock = ""
    /\ cc_pc = [p \in Connections |-> "start"]
    /\ cc_existing = [p \in Creators |-> None]
    /\ cc_raised = [p \in Connections |-> None]
    /\ cc_job_ids = <<>>
    /\ cc_idx = 1
    /\ cc_overwritten = {}

PpOff ==
    /\ pp_pipelines = <<>>
    /\ pp_params = None
    /\ pp_pc = "idle"
    /\ pp_tasks = <<>>
    /\ pp_done = {}
    /\ pp_results = <<>>

InitPaginator == PgInit /\ ClOff /\ RlOff /\ TrOff /\ LdOff /\ SmOff /\ OrOff /\ PlOff /\ BdOff /\ ChOff /\ CcOff /\ PpOff

InitClient == ClInit /\ PgOff /\ RlOff /\ TrOff /\ LdOff /\ SmOff /\ OrOff /\ PlOff /\ BdOff /\ ChOff /\ CcOff /\ PpOff

InitRate == RlInit /\ PgOff /\ ClOff /\ TrOff /\ LdOff /\ SmOff /\ OrOff /\ PlOff /\ BdOff /\ ChOff /\ CcOff /\ PpOff

InitTransform == TrInit /\ PgOff /\ ClOff /\ RlOff /\ LdOff /\ SmOff /\ OrOff /\ PlOff /\ BdOff /\ ChOff /\ CcOff /\ PpOff

InitLoader == LdInit /\ PgOff /\ ClOff /\ RlOff /\ TrOff /\ SmOff /\ OrOff /\ PlOff /\ BdOff /\ ChOff /\ CcOff /\ PpOff

\* A loader built with key_columns = [] and either value of upsert.
LdInitNoKeys ==
    /\ ld_key_columns = {}
    /\ ld_upsert \in BOOLEAN
    /\ ld_data \in SeqsUpTo(LoadRecords, MaxLoadRecords)
    /\ ld_batch_size \in 1..MaxBatchSize
    /\ ld_table0 \in InitialTables
    /\ ld_table = ld_table0
    /\ ld_start = ld_table0
    /\ ld_run = 0
    /\ ld_pc = "idle"
    /\ ld_batch_num = 0
    /\ ld_attempts = 0
    /\ ld_total_loaded = 0
    /\ ld_errors = <<>>
    /\ ld_tries = <<>>
    /\ ld_failed = {}

InitLoaderNoKeys == LdInitNoKeys /\ PgOff /\ ClOff /\ RlOff /\ TrOff /\ SmOff /\ OrOff /\ PlOff /\ BdOff /\ ChOff /\ CcOff /\ PpOff

InitState == SmInit /\ PgOff /\ ClOff /\ RlOff /\ TrOff /\ LdOff /\ OrOff /\ PlOff /\ BdOff /\ ChOff /\ CcOff /\ PpOff

InitOrchestrator == OrInit /\ PgOff /\ ClOff /\ RlOff /\ TrOff /\ LdOff /\ PlOff /\ BdOff /\ ChOff /\ CcOff /\ PpOff

InitPipeline == PlInit /\ PgOff /\ ClOff /\ RlOff /\ TrOff /\ LdOff /\ SmOff /\ OrOff /\ BdOff /\ ChOff /\ CcOff /\ PpOff

InitBuilder == BdInit /\ PgOff /\ ClOff /\ RlOff /\ TrOff /\ LdOff /\ SmOff /\ OrOff /\ PlOff /\ ChOff /\ CcOff /\ PpOff

InitChunks == ChInit /\ PgOff /\ ClOff /\ RlOff /\ TrOff /\ LdOff /\ SmOff /\ OrOff /\ PlOff /\ BdOff /\ CcOff /\ PpOff

SpecPaginator == InitPaginator /\ [][PgNext]_vars

SpecClient == InitClient /\ [][ClNext]_vars

SpecRate == InitRate /\ [][RlNext]_vars

SpecTransform == InitTransform /\ [][TrNext]_vars

SpecLoader == InitLoader /\ [][LdNext]_vars

SpecLoaderNoKeys == InitLoaderNoKeys /\ [][LdNext]_vars

SpecState == InitState /\ [][SmNext]_vars

InitStateStore == SmInitStore /\ PgOff /\ ClOff /\ RlOff /\ TrOff /\ LdOff /\ OrOff /\ PlOff /\ BdOff /\ ChOff /\ CcOff /\ PpOff

SpecStateStore == InitStateStore /\ [][SmNext]_vars

SpecOrchestrator == InitOrchestrator /\ [][OrNext]_vars

SpecPipeline == InitPipeline /\ [][PlNext]_vars

SpecBuilder == InitBuilder /\ [][BdNext]_vars

SpecChunks == InitChunks /\ [][ChNext]_vars

InitConnections == CcInit /\ PgOff /\ ClOff /\ RlOff /\ TrOff /\ LdOff /\ SmOff /\ OrOff /\ PlOff /\ BdOff /\ ChOff /\ PpOff

SpecConnections == InitConnections /\ [][CcNext]_vars

InitParallel == PpInit /\ PgOff /\ ClOff /\ RlOff /\ TrOff /\ LdOff /\ SmOff /\ OrOff /\ PlOff /\ BdOff /\ ChOff /\ CcOff

SpecParallel == InitParallel /\ [][PpNext]_vars

----------------------------------------------------------------------------
\* Claims about the paginator

\* 1, 2, ..., n
UpTo(n) == [i \in 1..n |-> i]

\* The records of the logged responses 1..n in call order, each page giving
\* its "results" list when that is non-empty and its "data" list otherwise.
RECURSIVE PagesConcat(_, _)
PagesConcat(log, n) ==
    IF n = 0 THEN <<>>
    ELSE PagesConcat(log, n - 1) \o
         (IF log[n].results # None /\ log[n].results[1] # <<>>
          THEN log[n].results[1]
          ELSE IF log[n].data # None THEN log[n].data[1] ELSE <<>>)

\* The fetch function reported has_more_results=true on pages 1..k-1 and
\* false on page k, k being the number of calls made so far.
MoreUntilLast(log) ==
    /\ Len(log) >= 1
    /\ \A i \in 1..Len(log) :
        /\ ~log[i].raises
        /\ log[i].meta = (IF i < Len(log) THEN "more" ELSE "nomore")

\* C2: for a fetch function that reports has_more_results=true on pages
\* 1..k-1 and false on page k, fetch_all calls it for pages 1, 2, ..., k in
\* increasing order, each exactly once, the page counter growing by one per
\* call, then stops, and returns the records of exactly those k pages in
\* page order.
C2_FetchAllPagesInOrder ==
    MoreUntilLast(pg_log) =>
        /\ pg_fetched = UpTo(Len(pg_log))
        /\ pg_page = Len(pg_log) + 1
        /\ ~pg_has_more
        /\ pg_pc \in {"loop", "done"}
        /\ pg_all_records = PagesConcat(pg_log, Len(pg_log))

\* C2 witness: fetch_all has returned after a source of MaxPage pages, the
\* last one alone reporting no more results, with records on every page.
C2_Witness ==
    /\ pg_pc = "done"
    /\ MoreUntilLast(pg_log)
    /\ Len(pg_log) = MaxPage
    /\ Len(pg_all_records) = MaxPage

\* C3: when max_pages is set to m, no page number greater than m is
\* requested, whatever has_more_results the source reports.
C3_NeverBeyondMaxPages ==
    pg_max_pages # None =>
        \A i \in 1..Len(pg_fetched) : pg_fetched[i] <= pg_max_pages[1]

\* The same for a cap of at least 1, with the records returned: only those
\* of pages 1..m.
NeverBeyondPositiveMaxPages ==
    (pg_max_pages # None /\ pg_max_pages[1] >= 1) =>
        /\ \A i \in 1..Len(pg_fetched) : pg_fetched[i] <= pg_max_pages[1]
        /\ \A i \in 1..Len(pg_all_records) :
               pg_all_records[i].page <= pg_max_pages[1]

----------------------------------------------------------------------------
\* Claims about the client

IsTransient(outcome) == outcome.exc \in TransientErrors

\* A 4xx response other than 429 (401 included).
IsClientError(outcome) ==
    /\ outcome.exc = "none"
    /\ outcome.status >= 400
    /\ outcome.status < 500
    /\ outcome.status # 429

\* A 429 or a 5xx response.
IsRateLimitOrServerError(outcome) ==
    /\ outcome.exc = "none"
    /\ (outcome.status = 429 \/ outcome.status >= 500)

\* C4: with an attempt ceiling of 3, a transient error (timeout or network
\* error) on an attempt before the last is retried; when attempts 1 and 2
\* fail that way and attempt 3 succeeds the response of attempt 3 is
\* returned; when all 3 attempts fail that way no fourth attempt is made and
\* the error of the last attempt is raised as it is.
C4_TransientRetriedUpToCeiling ==
    LET n == Len(cl_outcomes) IN
    /\ n <= MaxAttempts
    /\ (n >= 1 /\ n < MaxAttempts /\ IsTransient(cl_outcomes[n])) =>
           cl_pc \in {"sleep", "attempt"}
    /\ (/\ n = MaxAttempts
        /\ \A i \in 1..(n - 1) : IsTransient(cl_outcomes[i])
        /\ AttemptRaises(cl_outcomes[n]) = "ok") =>
           /\ cl_pc = "returned"
           /\ cl_result = Some([kind |-> "json", attempt |-> MaxAttempts])
    /\ (/\ n = MaxAttempts
        /\ \A i \in 1..n : IsTransient(cl_outcomes[i])) =>
           /\ cl_pc = "raised"
           /\ cl_result = Some([kind |-> cl_outcomes[n].exc,
                                attempt |-> MaxAttempts])

\* C4 witness: attempts 1 and 2 met a transient error and attempt 3 returned.
C4_Witness ==
    /\ cl_pc = "returned"
    /\ Len(cl_outcomes) = 3
    /\ IsTransient(cl_outcomes[1])
    /\ IsTransient(cl_outcomes[2])
    /\ cl_slept = <<1, 2>>

\* C5: a request that receives a 429 or a 5xx response is attempted again,
\* up to the attempt ceiling, before an error reaches the caller.
C5_RateLimitAndServerErrorsRetried ==
    (/\ cl_pc = "raised"
     /\ IsRateLimitOrServerError(cl_outcomes[Len(cl_outcomes)])) =>
        Len(cl_outcomes) = MaxAttempts

\* C6: a 401 or any other 4xx response except 429 is never retried: the
\* attempt that receives it is the last one, no wait follows it, and
\* _make_request raises the error of that response; received on the first
\* attempt, the request ends after exactly one HTTP attempt.
C6_ClientErrorsNotRetried ==
    \A i \in 1..Len(cl_outcomes) :
        IsClientError(cl_outcomes[i]) =>
            /\ i = Len(cl_outcomes)
            /\ Len(cl_slept) = i - 1
            /\ cl_pc = "raised"
            /\ cl_result = Some([kind |-> (IF cl_outcomes[i].status = 401
                                           THEN "FWCAPIAuthError"
                                           ELSE "FWCAPIError"),
                                 attempt |-> i])

\* C6 witness: the first attempt got a 401 and the request has raised.
C6_Witness ==
    /\ cl_pc = "raised"
    /\ Len(cl_outcomes) = 1
    /\ cl_outcomes[1].status = 401

\* C7: with a ceiling of c requests per second, under every interleaving of
\* concurrent callers no more than c requests start within any rolling
\* 1-second window.
C7_AtMostCeilingPerWindow ==
    \A t \in 0..MaxTime :
        Cardinality({i \in 1..Len(rl_starts) :
                        rl_starts[i] >= t /\ rl_starts[i] < t + TicksPerSecond})
            <= rl_ceiling

----------------------------------------------------------------------------
\* Claims about the transformer

\* The record at position i is the only one of the input on which
\* _transform_record raises.
OnlyFailureAt(i) ==
    /\ TransformRecordRaises(tr_records[i])
    /\ \A j \in 1..Len(tr_records) :
        j # i => ~TransformRecordRaises(tr_records[j])

\* context.metadata.get("transform_errors", [])
AttachedErrors == IF tr_metadata = None THEN <<>> ELSE tr_metadata[1]

\* C8: transform applied to N raw records of which exactly the record at
\* index i raises inside _transform_record returns the N-1 transformed
\* records of the other inputs in input order and records exactly one
\* error, which carries index i (counted from 0).
C8_OneFailureIsolated ==
    tr_pc = "done" =>
        \A i \in 1..Len(tr_records) :
            OnlyFailureAt(i) =>
                /\ tr_transformed =
                       [k \in 1..(Len(tr_records) - 1) |->
                           TransformRecord(tr_records[IF k < i THEN k ELSE k + 1])]
                /\ Len(AttachedErrors) = 1
                /\ AttachedErrors[1].index = i - 1

\* C8 witness: transform has returned for MaxRaw records of which the second
\* alone raised.
C8_Witness ==
    /\ tr_pc = "done"
    /\ Len(tr_records) = MaxRaw
    /\ OnlyFailureAt(2)
    /\ Len(tr_transformed) = MaxRaw - 1

\* C9: for every input list, len(output) <= len(input) and len(input) -
\* len(output) equals the number of per-record errors attached to the
\* context.
C9_DroppedRecordsAreRecorded ==
    tr_pc = "done" =>
        /\ Len(tr_transformed) <= Len(tr_records)
        /\ Len(tr_records) - Len(tr_transformed) = Len(AttachedErrors)

\* C9 witness: transform has returned with a record transformed, whose key
\* field is null, and another one dropped.
C9_Witness ==
    /\ tr_pc = "done"
    /\ Len(AttachedErrors) >= 1
    /\ \E k \in 1..Len(tr_transformed) : tr_transformed[k].award_fixed_id = None

----------------------------------------------------------------------------
\* Claims about the loader

\* The table that one load of the data without a failure leaves.
LoadedOnce == MergeBatch(ld_table0, ld_data, Len(ld_data))

\* How many rows of the table equal row.
RowCount(table, row) == Cardinality({i \in 1..Len(table) : table[i] = row})

\* Two tables hold the same rows: the same row count and column values,
\* whatever the order.
SameRows(t1, t2) ==
    /\ Len(t1) = Len(t2)
    /\ \A i \in 1..Len(t1) : RowCount(t1, t1[i]) = RowCount(t2, t1[i])

\* No record of the data has a null key column.
NoNullKey ==
    \A i \in 1..Len(ld_data) : \A col \in KeyColumns : ld_data[i][col] # None

\* C1: loading the records twice in upsert mode leaves the destination
\* table with the same rows as loading them once, also when the first load
\* failed in some chunk and the whole list is then loaded again.
C1_LoadTwiceSameAsOnce ==
    (ld_run = 2 /\ ld_pc = "returned" /\ ld_failed = {}) =>
        SameRows(ld_table, LoadedOnce)

\* The same for data without null key columns.
LoadTwiceSameAsOnceWithKeys ==
    (ld_run = 2 /\ ld_pc = "returned" /\ ld_failed = {} /\ NoNullKey) =>
        SameRows(ld_table, LoadedOnce)

\* C10: when a chunk is declared failed every later chunk is still
\* attempted, load does not raise, and one error per failed chunk is added
\* to the context, so that has_errors is true after a load with a failed
\* chunk.
C10_FailedChunkDoesNotStopLoad ==
    /\ ld_pc # "raised"
    /\ Len(ld_errors) = Cardinality(ld_failed)
    /\ \A j \in ld_failed : \E e \in 1..Len(ld_errors) : ld_errors[e].batch = j
    /\ ld_failed # {} => Len(ld_errors) > 0
    /\ ld_pc = "loading" => \A j \in 1..(ld_batch_num - 1) : ld_tries[j] >= 1
    /\ (ld_pc = "returned" /\ ld_data # <<>>) =>
           \A j \in 1..Len(LdBatches) : ld_tries[j] >= 1

\* C10 witness: load has returned after its first chunk was declared failed
\* and its second chunk was written.
C10_Witness ==
    /\ ld_pc = "returned"
    /\ Len(LdBatches) = 2
    /\ ld_failed = {1}
    /\ ld_tries[2] >= 1
    /\ ld_total_loaded = Len(LdBatches[2])
    /\ Len(ld_errors) = 1

----------------------------------------------------------------------------
\* Claims about the StateManager

\* The row of the job the last call named, after the call.
LastJob == GetJob(sm_jobs, sm_last.job_id)

\* C15: create_job called with a job_id that already exists, in any status,
\* does not fail and leaves exactly one row with that job_id, whose status
\* is pending.
C15_CreateExistingJobResets ==
    (sm_last.op = "create_job" /\ JobRows(sm_last.before, sm_last.job_id) # {})
        => /\ ~sm_last.raised
           /\ Cardinality(JobRows(sm_jobs, sm_last.job_id)) = 1
           /\ LastJob[1].status = "pending"

\* create_job was called for a job that had ended in success and is now pending.
C15_Witness ==
    /\ sm_last.op = "create_job"
    /\ GetJob(sm_last.before, sm_last.job_id) # None
    /\ GetJob(sm_last.before, sm_last.job_id)[1].status = "success"
    /\ LastJob[1].status = "pending"
    /\ Len(sm_jobs) = 2

\* C16 as stated: create_job leaves the job in a non-terminal status;
\* update_job_completion with an error message leaves it failed with
\* completed_at and error_message set; without an error message it leaves
\* it success with completed_at set.
C16_CompletionStatusFollowsError ==
    /\ (sm_last.op = "create_job" /\ ~sm_last.raised)
            => LastJob[1].status \in {"pending", "running"}
    /\ (sm_last.op = "update_job_completion" /\ LastJob # None)
            => /\ LastJob[1].completed_at # None
               /\ sm_last.error_message # None
                    => /\ LastJob[1].status = "failed"
                       /\ LastJob[1].error_message # None
               /\ sm_last.error_message = None
                    => LastJob[1].status = "success"

\* C16 as amended: create_job leaves the job pending; update_job_completion
\* stores the status and the error_message it is passed and sets
\* completed_at to the time of the call.
C16_CompletionStoresStatusAndError ==
    /\ (sm_last.op = "create_job" /\ ~sm_last.raised)
            => LastJob[1].status = "pending"
    /\ (sm_last.op = "update_job_completion" /\ LastJob # None)
            => /\ LastJob[1].status = sm_last.status
               /\ LastJob[1].error_message = sm_last.error_message
               /\ LastJob[1].completed_at = Some(sm_last.at)

\* A pending job was completed as failed with a message.
C16_Witness ==
    /\ sm_last.op = "update_job_completion"
    /\ GetJob(sm_last.before, sm_last.job_id) # None
    /\ GetJob(sm_last.before, sm_last.job_id)[1].status = "pending"
    /\ sm_last.status = "failed"
    /\ LastJob[1].status = "failed"
    /\ LastJob[1].error_message = Some("boom")
    /\ LastJob[1].completed_at = Some(sm_last.at)

\* A row that is pending and at least `older` seconds old at time `now`.
StalePending(row, older, now) ==
    /\ row.status = "pending"
    /\ older = None \/ now - row.created_at >= older[1]

\* C20: cleanup_pending_jobs(older_than_seconds = a) sets to failed exactly
\* the jobs that are pending and at least a seconds old (every pending job
\* when a is None), returns how many it marked, and leaves every other row
\* unchanged.
C20_CleanupMarksExactlyStalePending ==
    sm_last.op = "cleanup_pending_jobs"
        => /\ Len(sm_jobs) = Len(sm_last.before)
           /\ \A i \in 1..Len(sm_last.before) :
                IF StalePending(sm_last.before[i], sm_last.older, sm_last.at)
                THEN /\ sm_jobs[i].status = "failed"
                     /\ sm_jobs[i].job_id = sm_last.before[i].job_id
                ELSE sm_jobs[i] = sm_last.before[i]
           /\ sm_last.returned =
                Cardinality({i \in 1..Len(sm_last.before) :
                    StalePending(sm_last.before[i], sm_last.older, sm_last.at)})

\* A cleanup with a = 1 met a pending job one second old and a pending job
\* created in the same second: it marked the first and left the second.
C20_Witness ==
    /\ sm_last.op = "cleanup_pending_jobs"
    /\ sm_last.older = Some(1)
    /\ sm_last.returned = 1
    /\ Len(sm_jobs) = 2
    /\ sm_last.before[1].status = "pending"
    /\ sm_last.before[2].status = "pending"
    /\ sm_jobs[1].status = "failed"
    /\ sm_jobs[2].status = "pending"

----------------------------------------------------------------------------
\* Claims about the orchestrator

\* run_full_etl has ended: it returned its results or it raised.
OrEnded == or_pc \in {"returned", "raised"}

\* The run got past state_manager.create_job.
PastCreateJob == or_exc # Some("OperationalError")

ChildKindSet == {ChildKinds[k] : k \in 1..Len(ChildKinds)}

\* How many times the child pipeline of the kind ran for the award code.
RunsOf(kind, code) ==
    Cardinality({i \in 1..Len(or_runs) :
                    or_runs[i].kind = kind /\ or_runs[i].code = code})

\* results["pipelines"] holds an entry of some child pipeline for the code.
HasEntry(code) == \E kind \in ChildKindSet : or_children[kind][code] # None

\* C11: with parents [p1, p2, p3] (and a child extraction failing for p2)
\* every child pipeline of p1, p2 and p3 is run, the run does not end before
\* p3 is processed, and the summary returned holds entries for p1, p2 and p3.
C11_FanOutIsolation ==
    (OrEnded /\ PastCreateJob /\ or_override = Some(<<"A1", "A2", "A3">>))
        => /\ \A kind \in ChildKindSet, code \in {"A1", "A2", "A3"} :
                RunsOf(kind, code) >= 1
           /\ or_pc = "returned"
           /\ \A code \in {"A1", "A2", "A3"} : HasEntry(code)

\* What the code does instead: no pipeline can be built, so no run of
\* run_full_etl runs a pipeline or writes an entry to results["pipelines"],
\* and every run ends by raising.
NoPipelineIsRun ==
    /\ or_runs = <<>>
    /\ or_awards = None
    /\ \A code \in Codes : ~HasEntry(code)
    /\ OrEnded => or_pc = "raised"

\* C12: with parents A1 and A2 (and the child extraction of A2 raising an
\* authorization error) run_full_etl returns a summary that reports A1 and
\* A2, and the job ends in a terminal status (failed).
C12_SecondParentAuthError ==
    (OrEnded /\ PastCreateJob /\ or_override = Some(<<"A1", "A2">>))
        => /\ or_pc = "returned"
           /\ HasEntry("A1") /\ HasEntry("A2")
           /\ GetJob(sm_jobs, OrJobId) # None
           /\ GetJob(sm_jobs, OrJobId)[1].status = "failed"

\* C13: when run_full_etl ends, get_job(job_id) returns the job and its
\* status is success or failed, never pending or running (for a run whose
\* create_job returned).
C13_RunEndsWithTerminalJob ==
    (OrEnded /\ PastCreateJob)
        => /\ GetJob(sm_jobs, OrJobId) # None
           /\ GetJob(sm_jobs, OrJobId)[1].status \in {"success", "failed"}

\* The part of C13 the code keeps: when a run in which create_job returned
\* ends, get_job returns one job for the job_id.
RunEndsWithQueryableJob ==
    (OrEnded /\ PastCreateJob)
        => /\ GetJob(sm_jobs, OrJobId) # None
           /\ Cardinality(JobRows(sm_jobs, OrJobId)) = 1

\* The distinct parent identifiers of a run given the award_codes argument.
Parents ==
    IF TruthyList(or_override)
    THEN {or_override[1][i] : i \in 1..Len(or_override[1])}
    ELSE {}

\* C18: the child pipelines run exactly once per distinct parent identifier
\* (here for identifiers that come from the award_codes argument, in a run
\* that got past create_job).
C18_OncePerDistinctParent ==
    (OrEnded /\ PastCreateJob /\ TruthyList(or_override))
        => \A kind \in ChildKindSet, code \in Codes :
            RunsOf(kind, code) = IF code \in Parents THEN 1 ELSE 0

----------------------------------------------------------------------------
\* Claims about the status of a job

\* The changes of status the state machine of a job allows to
\* update_job_status and update_job_completion.
JobTransitions ==
    {<<"pending", "running">>, <<"running", "success">>,
     <<"running", "failed">>}

\* C14: the status of a job follows pending -> running -> {success, failed}:
\* a terminal status is written only to a running job, and once the status
\* is success or failed neither update_job_status, update_job_completion
\* nor cleanup_pending_jobs changes it.
C14_JobStatusStateMachine ==
    sm_last.op \in {"update_job_status", "update_job_completion",
                    "cleanup_pending_jobs"}
        => /\ Len(sm_jobs) = Len(sm_last.before)
           /\ \A i \in 1..Len(sm_last.before) :
                \/ sm_jobs[i].status = sm_last.before[i].status
                \/ <<sm_last.before[i].status, sm_jobs[i].status>>
                        \in JobTransitions
                \/ /\ sm_last.op = "cleanup_pending_jobs"
                   /\ sm_last.before[i].status = "pending"
                   /\ sm_jobs[i].status = "failed"

\* The part of C14 the code keeps: cleanup_pending_jobs leaves every job
\* that is running, success or failed as it is.
CleanupLeavesStartedJobs ==
    sm_last.op = "cleanup_pending_jobs"
        => \A i \in 1..Len(sm_last.before) :
            sm_last.before[i].status # "pending"
                => sm_jobs[i] = sm_last.before[i]

----------------------------------------------------------------------------
\* Claims about Pipeline.run and the extract step

\* The positions in pl_calls of the calls of the hook or step.
CallsOf(what) == {i \in 1..Len(pl_calls) : pl_calls[i].what = what}

\* C17: the transformer is invoked only after the extractor has returned
\* SUCCESS and the loader only after the transformer has returned SUCCESS,
\* each with the output of its predecessor; when a stage ends FAILED no
\* later stage is invoked.
C17_StagesInOrder ==
    /\ \A what \in {"extract", "transform", "load"} :
            Cardinality(CallsOf(what)) <= 1
    /\ \A i \in CallsOf("transform") :
        /\ \E j \in CallsOf("extract") : j < i
        /\ pl_steps.extract.status = "success"
        /\ pl_steps.extract.data = Some(pl_calls[i].input)
    /\ \A i \in CallsOf("load") :
        /\ \E j \in CallsOf("transform") : j < i
        /\ pl_steps.transform.status = "success"
        /\ pl_steps.transform.data = Some(pl_calls[i].input)
    /\ pl_steps.extract.status = "failed"
        => CallsOf("transform") = {} /\ CallsOf("load") = {}
    /\ pl_steps.transform.status = "failed" => CallsOf("load") = {}

\* A run went through the three stages: two records were extracted and
\* passed to the transformer, which kept one, passed to the loader.
C17_Witness ==
    /\ pl_pc = "returned"
    /\ \E i \in CallsOf("transform") : pl_calls[i].input = <<"a", "b">>
    /\ \E i \in CallsOf("load") : pl_calls[i].input = <<"a">>
    /\ pl_steps.load.status = "success"

----------------------------------------------------------------------------
\* Claims about PipelineBuilder

\* C21: build raises ValueError for the first of extractor, transformer and
\* loader that is not set, in that order, and with the three set it returns
\* a Pipeline with the builder's name and those three steps.
C21_BuildNeedsThreeSteps ==
    bd_built.called =>
        LET b == bd_built.builder IN
        /\ b.extractor = None
            => bd_built.error = "Extractor is required"
        /\ b.extractor # None /\ b.transformer = None
            => bd_built.error = "Transformer is required"
        /\ b.extractor # None /\ b.transformer # None /\ b.loader = None
            => bd_built.error = "Loader is required"
        /\ bd_built.error # "" => bd_built.pipeline = None
        /\ b.extractor # None /\ b.transformer # None /\ b.loader # None
            => /\ bd_built.error = ""
               /\ bd_built.pipeline # None
               /\ bd_built.pipeline[1].name = b.name
               /\ bd_built.pipeline[1].extractor = b.extractor
               /\ bd_built.pipeline[1].transformer = b.transformer
               /\ bd_built.pipeline[1].loader = b.loader

\* build returned a Pipeline of the builder "p2" with the three steps set.
C21_Witness ==
    /\ bd_built.called
    /\ bd_built.pipeline # None
    /\ bd_built.pipeline[1].name = "p2"
    /\ bd_built.pipeline[1].extractor = Some("s2")
    /\ bd_built.pipeline[1].loader = Some("s1")

\* build raised for the transformer on a builder with only the extractor set.
BuildRaisedForTransformer ==
    /\ bd_built.called
    /\ bd_built.builder.extractor # None
    /\ bd_built.builder.loader = None
    /\ bd_built.error = "Transformer is required"

----------------------------------------------------------------------------
\* Claims about chunk_list

\* The concatenation of the chunks, in order.
RECURSIVE Concat(_)
Concat(chunks) ==
    IF chunks = <<>> THEN <<>> ELSE Head(chunks) \o Concat(Tail(chunks))

\* C22: for chunk_size >= 1 the chunks concatenate to data, every chunk but
\* the last has chunk_size elements, the last has between 1 and chunk_size,
\* and the empty list gives no chunk.
C22_ChunksPartitionData ==
    ch_pc = "returned" =>
        /\ ch_size >= 1
        /\ Concat(ch_chunks) = ch_data
        /\ \A i \in 1..(Len(ch_chunks) - 1) : Len(ch_chunks[i]) = ch_size
        /\ ch_chunks # <<>>
            => Len(ch_chunks[Len(ch_chunks)]) \in 1..ch_size
        /\ ch_data = <<>> => ch_chunks = <<>>

\* Four elements in chunks of three: a full chunk and a last chunk of one.
C22_Witness ==
    /\ ch_pc = "returned"
    /\ Len(ch_data) = 4
    /\ ch_size = 3
    /\ Len(ch_chunks) = 2
    /\ Len(ch_chunks[2]) = 1

\* The empty list was chunked.
EmptyListChunked == ch_pc = "returned" /\ ch_data = <<>> /\ ch_chunks = <<>>

----------------------------------------------------------------------------
\* Claims about the rows of the destination table

\* Two rows agree on every key column.
SameKey(r1, r2) == \A col \in KeyColumns : r1[col] = r2[col]

\* A row has a value in every key column.
HasKey(row) == \A col \in KeyColumns : row[col] # None

\* C23: after any sequence of loads in upsert mode on a table that starts
\* without two rows agreeing on all key columns, the table never holds two
\* rows with equal values in all key columns.
C23_OneRowPerKey ==
    \A i, j \in 1..Len(ld_table) :
        i # j => ~SameKey(ld_table[i], ld_table[j])

\* The same for the rows that have a value in every key column: a record
\* whose key matches a row updates it, only a new key adds a row.
OneRowPerNonNullKey ==
    \A i, j \in 1..Len(ld_table) :
        (i # j /\ HasKey(ld_table[i])) => ~SameKey(ld_table[i], ld_table[j])

\* The chunks 1..k of the call that were not declared failed, merged into
\* the table in order.
RECURSIVE CommittedChunks(_, _)
CommittedChunks(table, k) ==
    IF k = 0 THEN table
    ELSE IF k \in ld_failed
    THEN CommittedChunks(table, k - 1)
    ELSE MergeBatch(CommittedChunks(table, k - 1), LdBatches[k],
                    Len(LdBatches[k]))

\* The chunks of the current call that are over.
ChunksOver == IF ld_batch_num = 0 THEN 0 ELSE ld_batch_num - 1

\* C24: each chunk is written atomically: during and after a load the
\* destination table holds the table the call began with and all the records
\* of the chunks committed so far, and nothing of a chunk attempt that
\* failed or of a chunk declared failed.
C24_ChunksAreAtomic ==
    (ld_run >= 1 /\ ld_pc \in {"loading", "returned"}) =>
        ld_table = CommittedChunks(ld_start, ChunksOver)

\* load has returned after its first chunk failed three times and its second
\* chunk was committed: the table holds the second chunk only.
C24_Witness ==
    /\ ld_pc = "returned"
    /\ ld_run = 1
    /\ ld_start = <<>>
    /\ Len(LdBatches) = 2
    /\ ld_failed = {1}
    /\ ld_tries[1] = MaxWriteAttempts
    /\ ld_table = <<ld_data[2]>>

----------------------------------------------------------------------------
\* Claims about the end of a job

\* C25: in every state of the store each job whose status is success or
\* failed has a completed_at, whichever operation wrote the status.
C25_TerminalJobsHaveCompletedAt ==
    \A i \in 1..Len(sm_jobs) :
        sm_jobs[i].status \in {"success", "failed"}
            => sm_jobs[i].completed_at # None

\* The same for the jobs update_job_completion has just written.
CompletionSetsCompletedAt ==
    sm_last.op = "update_job_completion" =>
        \A i \in JobRows(sm_jobs, sm_last.job_id) :
            sm_jobs[i].completed_at # None

----------------------------------------------------------------------------
\* Claims about the outer boundary of run_full_etl and its job steps

\* C26: an exception raised outside the handlers of the child pipelines is
\* caught at the outer boundary, the job is marked failed in the store with
\* the exception's message, and run_full_etl returns a summary with status
\* failed instead of raising.
C26_OuterExceptionEndsAsFailedRun ==
    (or_exc # None /\ OrEnded) =>
        /\ or_pc = "returned"
        /\ or_status = "failed"
        /\ or_error = or_exc
        /\ \E i \in JobRows(sm_jobs, OrJobId) :
            /\ sm_jobs[i].status = "failed"
            /\ sm_jobs[i].error_message = or_exc

\* The handler does catch the exception and writes it to the results before
\* it calls the store.
OuterExceptionIsCaught ==
    (or_exc # None /\ OrEnded) => or_status = "failed" /\ or_error = or_exc

\* C27: for every stage of a sub-pipeline that has executed a JobStep is in
\* the store: once Pipeline.run has called the extractor, the job_steps
\* table holds a row.
C27_StagesHaveJobSteps ==
    CallsOf("extract") # {} => sm_steps # <<>>

\* run_full_etl and the sub-pipelines write no row to job_steps.
RunWritesNoJobStep == sm_steps = <<>>

----------------------------------------------------------------------------
\* Claims about stages without input

\* C28: when the extraction returned an empty record list, the transform
\* and load steps of the pipeline end with status skipped, not success and
\* not failed.
C28_EmptyInputSkipsStages ==
    (pl_steps.extract.status = "success"
        /\ pl_steps.extract.data = Some(<<>>))
        => /\ pl_steps.transform.status \in {"absent", "skipped"}
           /\ pl_steps.load.status \in {"absent", "skipped"}

\* No step of a pipeline ever ends with status skipped.
NoStepIsSkipped ==
    /\ pl_steps.extract.status # "skipped"
    /\ pl_steps.transform.status # "skipped"
    /\ pl_steps.load.status # "skipped"

\* After an empty extraction the transformer and the loader are called with
\* the empty list.
EmptyExtractionRunsStages ==
    (pl_steps.extract.status = "success"
        /\ pl_steps.extract.data = Some(<<>>))
        => \A i \in CallsOf("transform") : pl_calls[i].input = <<>>

----------------------------------------------------------------------------
\* Claims about a fetch that raises and about missing metadata

\* C29: if the fetch function raises on page j, fetch_all lets that same
\* exception out, makes no further fetch, and returns none of the records of
\* pages 1..j-1.
C29_FetchErrorPropagates ==
    \A j \in 1..Len(pg_log) :
        pg_log[j].raises =>
            /\ pg_pc = "raised"
            /\ pg_exc = Some(pg_log[j].error)
            /\ j = Len(pg_log)
            /\ pg_fetched = UpTo(j)
            /\ pg_all_records = <<>>

\* The fetch function raised on page 3 after two pages with records.
C29_Witness ==
    /\ pg_pc = "raised"
    /\ Len(pg_log) = 3
    /\ pg_log[3].raises
    /\ ResponseRecords(pg_log[1]) # <<>>
    /\ ResponseRecords(pg_log[2]) # <<>>
    /\ pg_exc = Some("TimeoutError")

\* C30: a page whose response carries no pagination metadata is the last
\* one, whatever its number: its records are yielded and no further fetch
\* is made.
C30_NoMetadataIsLastPage ==
    \A j \in 1..Len(pg_log) :
        (~pg_log[j].raises /\ pg_log[j].meta \in {"absent", "empty"}) =>
            /\ j = Len(pg_log)
            /\ ~pg_has_more
            /\ pg_pc \in {"loop", "done"}
            /\ pg_all_records = PagesConcat(pg_log, j)

\* fetch_all has returned after page 2 came without metadata, with the
\* records of the two pages.
C30_Witness ==
    /\ pg_pc = "done"
    /\ Len(pg_log) = 2
    /\ pg_log[2].meta = "absent"
    /\ ResponseRecords(pg_log[2]) # <<>>
    /\ Len(pg_all_records) = 2

----------------------------------------------------------------------------
\* Claims about the write attempts of a chunk

\* The total size of the chunks 1..k that were not declared failed.
RECURSIVE CommittedSize(_)
CommittedSize(k) ==
    IF k = 0 THEN 0
    ELSE CommittedSize(k - 1)
            + (IF k \in ld_failed THEN 0 ELSE Len(LdBatches[k]))

\* C31: a chunk gets at most 3 write attempts; a chunk is declared failed
\* only after 3 failed attempts and adds 0 to the count, a chunk committed at
\* attempt k <= 3 adds its length, and the count load returns is the total
\* size of the chunks committed.
C31_AtMostThreeAttemptsPerChunk ==
    (ld_run >= 1 /\ ld_pc \in {"loading", "returned"}) =>
        /\ \A j \in 1..Len(ld_tries) :
            /\ ld_tries[j] <= MaxWriteAttempts
            /\ j \in ld_failed => ld_tries[j] = MaxWriteAttempts
            /\ (j <= ChunksOver /\ j \notin ld_failed) => ld_tries[j] >= 1
        /\ ld_failed \subseteq 1..ChunksOver
        /\ ld_total_loaded = CommittedSize(ChunksOver)

\* load has returned: its first chunk was committed at the third attempt,
\* its second chunk failed three times, and the count is the size of the
\* first chunk.
C31_Witness ==
    /\ ld_pc = "returned"
    /\ Len(LdBatches) = 2
    /\ ld_tries = <<MaxWriteAttempts, MaxWriteAttempts>>
    /\ ld_failed = {2}
    /\ ld_total_loaded = Len(LdBatches[1])

----------------------------------------------------------------------------
\* Claims about a loader with no key columns

\* No chunk of the current call of load was given up on an error of the
\* connection or of a constraint of the database.
NoWriteErrorInCall ==
    \A e \in 1..Len(ld_errors) : ld_errors[e].error \notin WriteErrors

\* C32: a loader with no key columns performs a plain insert of every record
\* without matching existing rows: a call of load that met no write error
\* returns len(data) and leaves the table as it was with every record of
\* data appended, so that a second call stores each record a second time.
C32_NoKeysPlainInsert ==
    (ld_key_columns = {} /\ ld_pc = "returned" /\ NoWriteErrorInCall)
        => /\ ld_total_loaded = Len(ld_data)
           /\ ld_table = ld_start \o ld_data

\* What the code does: the plain insert is chosen by upsert = False, not by
\* the key columns.  With upsert = False every record is appended.
InsertModeAppends ==
    (~ld_upsert /\ ld_pc = "returned" /\ ld_failed = {})
        => /\ ld_total_loaded = Len(ld_data)
           /\ ld_table = ld_start \o ld_data

\* With no key columns and upsert left at True no MERGE can be executed:
\* nothing is ever stored, every chunk fails after three attempts and load
\* returns 0.
NoKeysUpsertStoresNothing ==
    (ld_key_columns = {} /\ ld_upsert)
        => /\ ld_table = ld_table0
           /\ ld_pc = "returned"
                => /\ ld_total_loaded = 0
                   /\ ld_failed = 1..Len(LdBatches)
                   /\ \A j \in 1..Len(ld_tries) : ld_tries[j] = MaxWriteAttempts

----------------------------------------------------------------------------
\* Claims about records with a null key column

\* The rows of the table whose key columns all equal those of the record,
\* null equal to null.
RowsWithKeyOf(record) ==
    {j \in 1..Len(ld_table) : SameKey(ld_table[j], record)}

\* C37: a record in which a key column is null, loaded twice in upsert mode,
\* is one row of the table and not two.
C37_NullKeyRecordIsOneRow ==
    (ld_upsert /\ ld_run = 2 /\ ld_pc = "returned")
        => \A i \in 1..Len(ld_data) :
            ~HasKey(ld_data[i]) => Cardinality(RowsWithKeyOf(ld_data[i])) <= 1

\* What the code does: the MERGE of a record with a null key column matches
\* no row, so that every committed chunk adds one row per such record.
NullKeyRecordAddsARow ==
    (ld_upsert /\ ld_run = 2 /\ ld_pc = "returned" /\ ld_failed = {}
        /\ Len(ld_data) = 1 /\ ~HasKey(ld_data[1]))
        => Len(ld_table) = Len(ld_start) + 1

----------------------------------------------------------------------------
\* Claims about the job_steps and job_logs tables

\* The job_steps rows a save_job_result of the result inserts for the job.
StepRowsOf(job_id, result) == SaveJobSteps(<<>>, job_id, result)

\* C33: save_job_result called twice with the same job_id and the same
\* result leaves the jobs row and the job_steps rows of the job as one call
\* leaves them (rows of job_steps differ by their id: the rows of the job
\* are compared as the list get_job_steps returns).
C33_SaveJobResultIdempotent ==
    sm_save.times = 2
        => /\ sm_jobs = sm_save.jobs
           /\ GetJobSteps(sm_steps, sm_save.job_id)
                = GetJobSteps(sm_save.steps, sm_save.job_id)

\* What the code does: the second call writes the same values to the jobs
\* row and inserts every step result once more.
SecondSaveRepeatsSteps ==
    sm_save.times = 2
        => /\ sm_jobs = sm_save.jobs
           /\ GetJobSteps(sm_steps, sm_save.job_id)
                = GetJobSteps(sm_save.steps, sm_save.job_id)
                    \o StepRowsOf(sm_save.job_id, sm_save.result)

\* The job_id of the row is the job_id of a row of jobs.
HasJob(row) == JobRows(sm_jobs, row.job_id) # {}

\* C34: every job_steps row and every job_logs row carries a job_id for
\* which a jobs row exists.
C34_ChildRowsBelongToAJob ==
    /\ \A i \in 1..Len(sm_steps) : HasJob(sm_steps[i])
    /\ \A i \in 1..Len(sm_logs) : HasJob(sm_logs[i])

\* The rows of the table other than those of the job.
RowsOfOthers(rows, job_id) == SelectSeq(rows, LAMBDA row : row.job_id # job_id)

\* The part of C34 the code keeps: delete_job(j) leaves no row of j in
\* jobs, job_steps and job_logs and leaves the rows of every other job as
\* they were.
DeleteJobRemovesJobAndChildrenOnly ==
    [][(sm_calls' # sm_calls /\ sm_last'.op = "delete_job")
        => /\ \A i \in 1..Len(sm_jobs') : sm_jobs'[i].job_id # sm_last'.job_id
           /\ \A i \in 1..Len(sm_steps') : sm_steps'[i].job_id # sm_last'.job_id
           /\ \A i \in 1..Len(sm_logs') : sm_logs'[i].job_id # sm_last'.job_id
           /\ sm_jobs' = RowsOfOthers(sm_jobs, sm_last'.job_id)
           /\ sm_steps' = RowsOfOthers(sm_steps, sm_last'.job_id)
           /\ sm_logs' = RowsOfOthers(sm_logs, sm_last'.job_id)]_vars

\* delete_job has removed a job with its step and its log entry and has
\* left those of the other job.
DeletedOneOfTwoJobs ==
    /\ sm_last.op = "delete_job"
    /\ sm_last.job_id = "j1"
    /\ Len(sm_last.before) = 2
    /\ Len(sm_jobs) = 1 /\ Len(sm_steps) = 1 /\ Len(sm_logs) = 1
    /\ sm_steps[1].job_id = "j2" /\ sm_logs[1].job_id = "j2"

----------------------------------------------------------------------------
\* Claims about StateManager calls on separate connections

\* The call of the connection has ended: it returned or it raised.
CcEnded(p) == cc_pc[p] \in {"done", "raised"}

\* Both create_job calls read the jobs table before either wrote: each
\* SELECT returned no row.  No other connection has done anything.
CreatorsRaced ==
    /\ \A p \in Creators : CcEnded(p) /\ ~Existing(cc_existing[p])
    /\ cc_pc["runner"] = "start"
    /\ cc_pc["cleanup"] = "start"

\* C35: two create_job calls for the same job_id that both read the jobs
\* table before either writes both complete without error and leave exactly
\* one row for the job_id, in status pending.
C35_InterleavedCreateJobs ==
    CreatorsRaced
        => /\ \A p \in Creators : cc_pc[p] = "done" /\ cc_raised[p] = None
           /\ Cardinality(JobRows(cc_jobs, CcJobId)) = 1
           /\ GetJob(cc_jobs, CcJobId)[1].status = "pending"

\* What the code does: the UNIQUE constraint keeps one row, in status
\* pending, and the create_job that inserts second raises IntegrityError.
CreateRaceRaisesInOne ==
    CreatorsRaced
        => /\ Cardinality({p \in Creators : cc_raised[p] = Some("IntegrityError")}) = 1
           /\ Cardinality({p \in Creators : cc_pc[p] = "done"}) = 1
           /\ Cardinality(JobRows(cc_jobs, CcJobId)) = 1
           /\ GetJob(cc_jobs, CcJobId)[1].status = "pending"

\* C36: cleanup_pending_jobs never writes over a status that is no longer
\* pending: a job another connection moved to running, success or failed
\* after the cleanup selected it is not set to failed by the cleanup.
C36_CleanupKeepsMovedJobs == cc_overwritten = {}

\* What the code does keep: the cleanup updates only jobs that were pending
\* when it selected them.
CleanupUpdatesOnlySelected ==
    \A o \in cc_overwritten :
        \E i \in 1..Len(cc_job_ids) : cc_job_ids[i] = o.job_id

\* The cleanup has set to failed the job the pipeline run had completed as
\* success.
CleanupOverwroteSuccess ==
    /\ cc_pc["cleanup"] = "done"
    /\ cc_pc["runner"] = "done"
    /\ [job_id |-> CcJobId, status |-> "success"] \in cc_overwritten
    /\ GetJob(cc_jobs, CcJobId)[1].status = "failed"
    /\ GetJob(cc_jobs, CcJobId)[1].error_message = Some(CleanupMessage)

----------------------------------------------------------------------------
\* Claims about the hooks of a pipeline

\* Pipeline.run has returned its context (after run was called on a
\* pipeline, not after a direct call of an extractor).
RunReturned == pl_pc = "returned" /\ CallsOf("extract") # {}

\* C38: every pre-hook and every post-hook is invoked exactly once per run,
\* also when a stage ended FAILED, and a hook that raises prevents neither
\* the remaining hooks nor the stages from running.
C38_HooksRunOncePerRun ==
    RunReturned
        => /\ Cardinality(CallsOf("pre_hook")) = pl_hooks.pre
           /\ Cardinality(CallsOf("post_hook")) = pl_hooks.post

\* The part of C38 the code keeps: every pre-hook is invoked once, before
\* the extractor, whether or not a hook raised; and when no stage returned
\* a status other than SUCCESS every post-hook is invoked once, after the
\* stages, whether or not a hook raised.
HooksRunUnlessAStageFailed ==
    RunReturned
        => /\ Cardinality(CallsOf("pre_hook")) = pl_hooks.pre
           /\ \A i \in CallsOf("pre_hook"), j \in CallsOf("extract") : i < j
           /\ (\A step \in {"extract", "transform", "load"} :
                    pl_steps[step].status \in {"absent", "success"})
                => /\ Cardinality(CallsOf("post_hook")) = pl_hooks.post
                   /\ \A i \in CallsOf("post_hook"), j \in CallsOf("extract") :
                        j < i

\* A run in which the first pre-hook and the first post-hook raised: the
\* second hooks and the three stages ran all the same.
RaisingHooksStoppedNothing ==
    /\ RunReturned
    /\ pl_hooks = [pre |-> 2, post |-> 2]
    /\ \E i \in CallsOf("pre_hook") : pl_calls[i].raised /\ i = 1
    /\ \E i \in CallsOf("post_hook"), j \in CallsOf("post_hook") :
            i < j /\ pl_calls[i].raised
    /\ pl_steps.load.status = "success"
    /\ Cardinality(CallsOf("pre_hook")) = 2
    /\ Cardinality(CallsOf("post_hook")) = 2

----------------------------------------------------------------------------
\* Claims about ParallelPipeline

\* The pipelines whose run made the contexts returned, in the order of the
\* contexts.
PipelinesRun == [i \in 1..Len(pp_results) |-> pp_results[i].pipeline]

\* C39: ParallelPipeline.run runs every pipeline it holds and returns
\* exactly one context per pipeline, in pipeline order, for every
\* params_list, also one shorter than the list of pipelines.
C39_OneContextPerPipeline ==
    pp_pc = "returned" => PipelinesRun = pp_pipelines

\* What the code does: it runs the pipelines up to the end of the shorter
\* of the two lists, in pipeline order, each with the parameters at its
\* index, and all of them when params_list is None, empty or at least as
\* long as the list of pipelines.
RunsUpToTheShorterList ==
    pp_pc = "returned"
        => LET params == ParamsOrDefault(pp_pipelines, pp_params)
               n == Min(Len(pp_pipelines), Len(params))
           IN  /\ PipelinesRun = SubSeq(pp_pipelines, 1, n)
               /\ \A i \in 1..n : pp_results[i].params = params[i]
               /\ (~TruthyList(pp_params)
                        \/ Len(pp_params[1]) >= Len(pp_pipelines))
                    => PipelinesRun = pp_pipelines

\* Two pipelines and a params_list of one dict: the run returned one
\* context, the second pipeline never ran.
ShortParamsListDroppedAPipeline ==
    /\ pp_pc = "returned"
    /\ Len(pp_pipelines) = 2
    /\ pp_params = Some(<<"empty">>)
    /\ Len(pp_results) = 1

====
